---- MODULE Spec2Model ----
(***************************************************************************)
(* Model of the kcp test-server fixture (package sdk/testing/server):      *)
(* NewFixture, kcpServer.Run / Cancel / Cancelled / loadCfg, runExternal,  *)
(* and the in-process runner RunKCPInProcess of test/integration/framework.*)
(*                                                                         *)
(* One test (one testing.T) builds one fixture of the servers in Order.    *)
(* Goroutines of the program are modelled as interleaved actions:          *)
(*   - the test goroutine (NewFixture, the test body, the cleanups),       *)
(*   - one readiness task per server (errgroup g.Go),                      *)
(*   - per external server the exit watcher and the signal sender,         *)
(*   - per in-process server the goroutine running the entry point,        *)
(*   - goroutines holding a handle that call Cancel().                     *)
(* The orchestrated server itself (process or entry point, the kubeconfig  *)
(* file it writes, its health endpoint) is the environment.                *)
(***************************************************************************)
EXTENDS Integers, Sequences, FiniteSets, TLC

\* The instances of the fixture, in the order of the cfgs argument.
Order == <<"a", "b">>
Servers == {Order[k] : k \in 1..Len(Order)}

\* The artifact producers a test registers.
Producers == {"p1", "p2"}

\* Goroutines that hold a handle and may call Cancel() on it.
Callers == {"c1", "c2"}

\* Number of condition calls of the poll in loadCfg before its timeout
\* expires (2 minutes at 100 ms in the code; scaled down).
MaxPolls == 2

\* Number of Cancel() calls made in one run.
MaxCancels == 2

NoErr == "nil"

VARIABLES
    \* ---- the test goroutine
    pc,             \* "launch" | "wait" | "body" | "cleanup" | "done"
    next,           \* index in Order of the next server NewFixture launches
    cleanups,       \* t.Cleanup stack, last registered last
    hookWaiting,    \* the cancel hook on top has cancelled and waits for completion
    terrors,        \* failures reported on t: set of <<kind, server>>
    returned,       \* history: NewFixture has returned the Fixture to its caller
    \* ---- NewFixture's contexts and errgroup
    topCtxDone,     \* ctx of context.WithCancel(context.Background())
    groupCancelled, \* the errgroup cancelled its derived context
    firstErr,       \* the error g.Wait returns: <<server, error>> or <<>>
    \* ---- the scenario (fixed by Init)
    fixture,        \* the cfgs given to NewFixture: the servers to launch, in order
    earlyCancel,    \* the handles are shared with Cancel() callers from the start
                    \* (code of the package); otherwise callers get them from
                    \* NewFixture's return value
    \* ---- launch configuration (fixed by Init)
    cfgRunInProcess,     \* Config.RunInProcess per server
    envInProcess,        \* env.InProcessEnvSet()
    runInProcessFuncSet, \* RunInProcessFunc != nil
    parent,              \* Config.RunInProcessCtx: "none" | "live" | "done"
    \* ---- kcpServer fields
    started,        \* c.cancel != nil
    ownCancel,      \* ctxCancel of Run's context.WithCancel was called
    cancelled,      \* c.cancelled
    cfg,            \* c.cfg != nil
    lock,           \* c.lock: "free" or the caller holding the write lock
    \* ---- the launched instance and its runner goroutines
    proc,           \* "none" | "running" | "exited"
    exitStatus,     \* 0 | 1 (process status, or entry point returned an error)
                    \* | 2 (the entry point panicked)
    ctxAtExit,      \* history: the lifecycle context was done when it exited
    wpc,            \* exit watcher / in-process goroutine position
    spc,            \* signal sender position: "none" | "wait" | "done"
    closes,         \* number of close(shutdownComplete) executed
    sigterm,        \* number of SIGTERMs sent to the process group
    etcdDone,       \* in-process: etcdCancel was called
    sstate,         \* environment: "starting" | "badfile" | "written" | "healthy"
    \* ---- readiness task of NewFixture (g.Go)
    tpc,            \* "none" | "poll" | "ready" | "done" | "failed"
    polls,          \* condition calls made by the poll of loadCfg
    lastError,      \* loadCfg's lastError: "nil" or the error kept
    taskErr,        \* the error the task returned
    probed200,      \* history: a /healthz probe returned 200 after the load
    monitored,      \* MonitorEndpoints was started
    \* ---- Cancel() callers
    cpc,            \* "idle" | "waiting"
    ctarget,        \* the handle of the call in progress
    clate,          \* history: the call began after a cancel had completed
    cancelCalls,    \* Cancel() calls begun
    cancelCompleted,\* history: a c.cancel() invocation has returned
    hookLate,       \* history: as clate, for the teardown hook in progress
    gathered,       \* the servers gatherMetrics was called for, in order
    kills,          \* the syscall.Kill calls made per server: [pid, sig]
    crashed,        \* a panic left a goroutine: the test binary has terminated
    reported,       \* per server: <<text>> once the exit watcher has reported the
                    \* process's failure with the filtered log text, <<>> before
    \* ---- the output of an external process
    emitted,        \* the bytes the process has written to stdout and stderr
    memLog,         \* the bytes in the in-memory buffer (log)
    fileLog,        \* the bytes in the file kcp.log
    \* ---- artifact producers (kcpServer.Artifact)
    registered,     \* the producers whose cleanup was registered, in order
    artSrv,         \* the server a producer was registered for, "-" before
    invoked,        \* the producers that were called
    \* ---- the first loop of NewFixture (newKcpServer) and the port allocator
    cfgName,        \* Config.Name per Config of the list
    cfgDataDir,     \* Config.DataDir per Config, a path as its elements
    dataDir,        \* kcpServer.dataDir of the handle made, <<>> before
    made,           \* number of handles newKcpServer has made
    newErr,         \* newKcpServer returned an error: the test has ended
    ports,          \* per caller of unusedPorts: the ports it was given so far
    open,           \* per caller of unusedPorts: its listeners still open
    apc,            \* per caller of unusedPorts: "idle" | "run" | "done" | "failed"
    bound,          \* history: the number of listeners the call has bound
    \* ---- calls of the package's functions Command and filterKcpLogs
    envDelve,       \* env.RunDelveEnvSet()
    envNoGoRun,     \* env.NoGoRunEnvSet()
    envBinDir,      \* os.Getenv("KCP_BINARIES_DIR") as a path, <<>> if unset
    wd,             \* os.Getwd() as a path
    exeName,        \* the executableName given to Command
    cmdOut,         \* the tokens Command returned, <<>> before the call
    rawLog,         \* the captured log given to filterKcpLogs, as its bytes
    filterOut,      \* what filterKcpLogs returned, as its bytes
    filterCalled    \* filterKcpLogs has returned

testVars == <<pc, next, cleanups, hookWaiting, terrors, returned>>
groupVars == <<topCtxDone, groupCancelled, firstErr>>
outVars == <<emitted, memLog, fileLog>>
newVars == <<cfgName, cfgDataDir, dataDir, made, newErr, ports, open, apc, bound>>
callInVars == <<envDelve, envNoGoRun, envBinDir, wd, exeName, rawLog>>
funcVars == <<callInVars, cmdOut, filterOut, filterCalled>>
artVars == <<registered, artSrv, invoked>>
\* What no step of the fixture changes once the handles are made.
confVars == <<fixture, earlyCancel, cfgRunInProcess, envInProcess, runInProcessFuncSet,
              newVars, funcVars, outVars, artVars>>
handleVars == <<started, ownCancel, cancelled, cfg, lock>>
procVars == <<proc, exitStatus, ctxAtExit, wpc, spc, closes, sigterm, etcdDone>>
taskVars == <<tpc, polls, lastError, taskErr, probed200, monitored>>
callVars == <<cpc, ctarget, clate, cancelCalls>>
histVars == <<cancelCompleted, hookLate, gathered, kills, crashed, reported>>

vars == <<testVars, groupVars, confVars, parent, handleVars, procVars, sstate,
          taskVars, callVars, histVars>>

\* The variables of a fixture and its instances.
fixtureVars == <<testVars, groupVars, fixture, earlyCancel, cfgRunInProcess,
                 envInProcess, runInProcessFuncSet, parent, handleVars,
                 procVars, sstate, taskVars, callVars, histVars>>

----------------------------------------------------------------------------
\* Contexts

\* A faulty variant of CtxDone: Run derives the lifecycle context from NewFixture's
\* shared context.
CtxDoneShared(i) ==
    ownCancel[i] \/ parent[i] = "done" \/ topCtxDone \/ groupCancelled

\* The lifecycle context of Run: context.WithCancel(parentCtx).
CtxDone(i) == ownCancel[i] \/ parent[i] = "done"

\* The context of errgroup.WithContext(ctx): done when its parent is, when a
\* task returned an error, or when Wait returned.
GroupCtxDone == topCtxDone \/ groupCancelled

\* t.Failed()
Failed == terrors # {}

\* The options NewFixture passes to Run.
OptRunInProcess(i) == envInProcess \/ cfgRunInProcess[i]

----------------------------------------------------------------------------
\* Initial state: the handles exist (newKcpServer returned), nothing is
\* launched, and NewFixture has registered t.Cleanup(cancel).

Hook(k, i) == [kind |-> k, srv |-> i]

InitState ==
    /\ pc = "launch"
    /\ next = 1
    /\ cleanups = <<Hook("ctxcancel", "-")>>
    /\ hookWaiting = FALSE
    /\ terrors = {}
    /\ returned = FALSE
    /\ topCtxDone = FALSE
    /\ groupCancelled = FALSE
    /\ firstErr = <<>>
    /\ started = [i \in Servers |-> FALSE]
    /\ ownCancel = [i \in Servers |-> FALSE]
    /\ cancelled = [i \in Servers |-> FALSE]
    /\ cfg = [i \in Servers |-> FALSE]
    /\ lock = [i \in Servers |-> "free"]
    /\ proc = [i \in Servers |-> "none"]
    /\ exitStatus = [i \in Servers |-> 0]
    /\ ctxAtExit = [i \in Servers |-> FALSE]
    /\ wpc = [i \in Servers |-> "none"]
    /\ spc = [i \in Servers |-> "none"]
    /\ closes = [i \in Servers |-> 0]
    /\ sigterm = [i \in Servers |-> 0]
    /\ etcdDone = [i \in Servers |-> FALSE]
    /\ sstate = [i \in Servers |-> "starting"]
    /\ tpc = [i \in Servers |-> "none"]
    /\ polls = [i \in Servers |-> 0]
    /\ lastError = [i \in Servers |-> NoErr]
    /\ taskErr = [i \in Servers |-> NoErr]
    /\ probed200 = [i \in Servers |-> FALSE]
    /\ monitored = [i \in Servers |-> FALSE]
    /\ cpc = [c \in Callers |-> "idle"]
    /\ ctarget = [c \in Callers |-> "-"]
    /\ clate = [c \in Callers |-> FALSE]
    /\ cancelCalls = 0
    /\ cancelCompleted = [i \in Servers |-> FALSE]
    /\ hookLate = FALSE
    /\ gathered = <<>>
    /\ kills = [i \in Servers |-> <<>>]
    /\ crashed = FALSE
    /\ reported = [i \in Servers |-> <<>>]
    /\ emitted = [i \in Servers |-> <<>>]
    /\ memLog = [i \in Servers |-> <<>>]
    /\ fileLog = [i \in Servers |-> <<>>]
    /\ registered = <<>>
    /\ artSrv = [p \in Producers |-> "-"]
    /\ invoked = {}

\* Path elements: filepath.Join joins the elements and cleans the result
\* (a "." element is dropped).
Clean(p) == SelectSeq(p, LAMBDA e : e # ".")

\* filepath.Join(cfg.DataDir, "kcp", cfg.Name)
Join(dir, name) == Clean(dir \o <<"kcp", name>>)

\* The callers of unusedPorts: tests that start a server each.
Allocators == {"t1", "t2"}

\* The ephemeral ports of the host.
MaxPort == 4
PortRange == 1..MaxPort

\* The Configs of the fixtures launched below: one per server, named after
\* it, all under one DataDir; their handles are made, no port allocation of
\* another test is in progress.
InitMade ==
    /\ cfgName = [i \in Servers |-> i]
    /\ cfgDataDir = [i \in Servers |-> <<"data">>]
    /\ dataDir = [i \in Servers |-> Join(cfgDataDir[i], cfgName[i])]
    /\ made = Len(Order)
    /\ newErr = FALSE
    /\ ports = [t \in Allocators |-> <<>>]
    /\ open = [t \in Allocators |-> {}]
    /\ apc = [t \in Allocators |-> "idle"]
    /\ bound = [t \in Allocators |-> 0]

\* No call of Command or filterKcpLogs is looked at: the environment is the
\* default one, run from the repository, and the log is empty.
InitUncalled ==
    /\ envDelve = FALSE /\ envNoGoRun = FALSE /\ envBinDir = <<>>
    /\ wd = <<"repo", "test">> /\ exeName = "kcp"
    /\ cmdOut = <<>>
    /\ rawLog = <<>> /\ filterOut = <<>> /\ filterCalled = FALSE

\* A Config has RunInProcessCtx only with RunInProcess (WithRunInProcessWithContext).
InitConfig ==
    /\ cfgRunInProcess \in [Servers -> BOOLEAN]
    /\ envInProcess \in BOOLEAN
    /\ runInProcessFuncSet \in BOOLEAN
    /\ parent \in [Servers -> {"none", "live"}]
    /\ \A i \in Servers : parent[i] = "live" => cfgRunInProcess[i]

\* A fixture of all the servers, launched as their Configs say, in a test
\* that uses the servers and ends without calling Cancel() itself.
Init ==
    /\ fixture = Order
    /\ earlyCancel = FALSE
    /\ InitConfig
    /\ ~envInProcess
    /\ \A i \in Servers : parent[i] = "none"
    /\ InitState
    /\ InitMade
    /\ InitUncalled

\* A fixture of one server whose handle is used concurrently from the start.
InitHandle ==
    /\ fixture = SubSeq(Order, 1, 1)
    /\ earlyCancel = TRUE
    /\ InitConfig
    /\ \A i \in Servers \ {Order[1]} : ~cfgRunInProcess[i] /\ parent[i] = "none"
    /\ InitState
    /\ InitMade
    /\ InitUncalled

----------------------------------------------------------------------------
\* kcpServer.Run and the runners' synchronous part

\* What the runner chosen by Run can return.  External: os.Create of the log
\* file fails, cmd.Start fails, or the process is started.  In process:
\* ValidateArgs fails, or the goroutine is started.
RunnerOutcomes(i) ==
    IF OptRunInProcess(i)
    THEN IF runInProcessFuncSet THEN {"argfail", "ok"} ELSE {"nilrunner"}
    ELSE {"logfail", "startfail", "ok"}

\* A faulty variant of RunHooks: Run does not register c.cancel with t.Cleanup.
RunHooksNoCancel(i, o) ==
    IF ~OptRunInProcess(i) /\ o \in {"startfail", "ok"}
    THEN <<Hook("logclose", i)>> ELSE <<>>

\* A faulty variant of RunHooks: c.cancel is registered before the runner is
\* called, whatever it returns.
RunHooksBeforeRunner(i, o) ==
    <<Hook("cancel", i)>>
    \o (IF ~OptRunInProcess(i) /\ o \in {"startfail", "ok"}
        THEN <<Hook("logclose", i)>> ELSE <<>>)

\* The cleanups a call of Run leaves registered on t, in registration order:
\* runExternal registers the log file's Close before cmd.Start, Run registers
\* c.cancel after the runner succeeded.
RunHooks(i, o) ==
    (IF ~OptRunInProcess(i) /\ o \in {"startfail", "ok"}
     THEN <<Hook("logclose", i)>> ELSE <<>>)
    \o (IF o = "ok" THEN <<Hook("cancel", i)>> ELSE <<>>)

\* A faulty variant of Run: the runner is looked at only after the lifecycle
\* context was made, and every failure cancels that context.
RunNilCheckLate(i, o) ==
    /\ lock[i] = "free"
    /\ cleanups' = cleanups \o RunHooks(i, o)
    /\ IF o = "ok"
       THEN /\ started' = [started EXCEPT ![i] = TRUE]
            /\ proc' = [proc EXCEPT ![i] = "running"]
            /\ wpc' = [wpc EXCEPT ![i] = "wait"]
            /\ spc' = [spc EXCEPT ![i] = IF OptRunInProcess(i) THEN "none" ELSE "wait"]
            /\ UNCHANGED ownCancel
       ELSE /\ ownCancel' = [ownCancel EXCEPT ![i] = TRUE]
            /\ UNCHANGED <<started, proc, wpc, spc>>

\* Run(i) with runner outcome o (the lock is held for the whole call).
Run(i, o) ==
    /\ lock[i] = "free"
    /\ cleanups' = cleanups \o RunHooks(i, o)
    /\ IF o = "ok"
       THEN /\ started' = [started EXCEPT ![i] = TRUE]
            /\ proc' = [proc EXCEPT ![i] = "running"]
            /\ wpc' = [wpc EXCEPT ![i] = "wait"]
            /\ spc' = [spc EXCEPT ![i] = IF OptRunInProcess(i) THEN "none" ELSE "wait"]
            /\ UNCHANGED ownCancel
       ELSE /\ ownCancel' = [ownCancel EXCEPT ![i] = (o # "nilrunner") \/ @]
            /\ UNCHANGED <<started, proc, wpc, spc>>

\* One iteration of NewFixture's launch loop: srv.Run, require.NoError, g.Go.
LaunchServer(i) ==
    /\ ~crashed
    /\ pc = "launch"
    /\ next <= Len(fixture)
    /\ i = fixture[next]
    /\ \E o \in RunnerOutcomes(i) :
        /\ Run(i, o)
        /\ IF o = "ok"
           THEN /\ tpc' = [tpc EXCEPT ![i] = "poll"]
                /\ next' = next + 1
                /\ pc' = IF next = Len(fixture) THEN "wait" ELSE "launch"
                /\ UNCHANGED terrors
           ELSE /\ terrors' = terrors \cup {<<"setup", i>>}
                /\ pc' = "cleanup"
                /\ UNCHANGED <<tpc, next>>
    /\ UNCHANGED <<hookWaiting, returned, groupVars, confVars, parent, cancelled, cfg, lock,
                   exitStatus, ctxAtExit, closes, sigterm, etcdDone, sstate,
                   polls, lastError, taskErr, probed200, monitored, callVars, histVars>>

----------------------------------------------------------------------------
\* The orchestrated server (environment)

\* The server writes its admin.kubeconfig (possibly observed half written)
\* and then starts serving /healthz.
NextServerStates(s) ==
    CASE s = "starting" -> {"badfile", "written"}
      [] s = "badfile"  -> {"written"}
      [] s = "written"  -> {"healthy"}
      [] OTHER          -> {}

ServerProgress(i) ==
    /\ ~crashed
    /\ proc[i] = "running"
    /\ \E s \in NextServerStates(sstate[i]) : sstate' = [sstate EXCEPT ![i] = s]
    /\ UNCHANGED <<testVars, groupVars, confVars, parent, handleVars, procVars,
                   taskVars, callVars, histVars>>

\* The process exits / the entry point returns or panics.  A failure can
\* happen at any time; a clean exit is the answer to the termination request.
TerminationRequested(i) ==
    IF OptRunInProcess(i) THEN CtxDone(i) ELSE sigterm[i] > 0

InstanceExit(i, st) ==
    /\ ~crashed
    /\ proc[i] = "running"
    /\ st = 0 => TerminationRequested(i)
    /\ st = 2 => OptRunInProcess(i)
    /\ proc' = [proc EXCEPT ![i] = "exited"]
    /\ exitStatus' = [exitStatus EXCEPT ![i] = st]
    /\ ctxAtExit' = [ctxAtExit EXCEPT ![i] = CtxDone(i)]
    /\ sstate' = [sstate EXCEPT ![i] = IF @ = "healthy" THEN "written" ELSE @]
    /\ UNCHANGED <<testVars, groupVars, confVars, parent, handleVars, wpc, spc,
                   closes, sigterm, etcdDone, taskVars, callVars, histVars>>

\* The caller of NewFixture cancels the Config's RunInProcessCtx.
ParentCancel(i) ==
    /\ ~crashed
    /\ parent[i] = "live"
    /\ parent' = [parent EXCEPT ![i] = "done"]
    /\ UNCHANGED <<testVars, groupVars, confVars, handleVars, procVars, sstate,
                   taskVars, callVars, histVars>>

----------------------------------------------------------------------------
\* filterKcpLogs

\* The bytes of a log: "g" and "c" are ordinary bytes, "nl" is the newline
\* and "cr" the carriage return.
Bytes == {"g", "c", "nl", "cr"}

\* The one entry of the list of ignored substrings (a long message of the
\* gRPC client in the code), scaled to two bytes.
Noise == <<"g", "c">>

\* The length of the longest captured log looked at.
MaxLog == 5

\* bufio.MaxScanTokenSize (64 KiB in the library), scaled: the scanner's
\* buffer holds a line only if it is shorter.
MaxScanTokenSize == 3

\* The index of the first newline of data, 0 if there is none.
IndexNewline(data) ==
    IF \E k \in 1..Len(data) : data[k] = "nl"
    THEN CHOOSE k \in 1..Len(data) :
             data[k] = "nl" /\ \A l \in 1..(k - 1) : data[l] # "nl"
    ELSE 0

\* The lines of a log: its bytes between newlines; what follows the last
\* newline is a line if it is not empty.
RECURSIVE Lines(_)
Lines(data) ==
    IF data = <<>> THEN <<>>
    ELSE LET k == IndexNewline(data)
         IN IF k = 0 THEN <<data>>
            ELSE <<SubSeq(data, 1, k - 1)>> \o Lines(SubSeq(data, k + 1, Len(data)))

\* bufio's dropCR: a line loses one trailing carriage return.
DropCR(line) ==
    IF line # <<>> /\ line[Len(line)] = "cr"
    THEN SubSeq(line, 1, Len(line) - 1) ELSE line

\* The tokens a bufio.Scanner with ScanLines yields for data until Scan()
\* returns false: at the end of the data, or with ErrTooLong at a line that
\* does not fit its buffer.
RECURSIVE ScanLines(_)
ScanLines(data) ==
    IF data = <<>> THEN <<>>
    ELSE LET k == IndexNewline(data)
             n == IF k = 0 THEN Len(data) ELSE k - 1
         IN IF n >= MaxScanTokenSize THEN <<>>
            ELSE <<DropCR(SubSeq(data, 1, n))>>
                 \o (IF k = 0 THEN <<>>
                     ELSE ScanLines(SubSeq(data, k + 1, Len(data))))

\* bytes.Contains(line, sub)
Contains(line, sub) ==
    \E k \in 0..(Len(line) - Len(sub)) :
        SubSeq(line, k + 1, k + Len(sub)) = sub

\* output.Write(append(line, "\n")) for every line in lines that is kept.
RECURSIVE WriteKept(_)
WriteKept(lines) ==
    IF lines = <<>> THEN <<>>
    ELSE (IF Contains(Head(lines), Noise) THEN <<>>
          ELSE Head(lines) \o <<"nl">>)
         \o WriteKept(Tail(lines))

\* filterKcpLogs(t, logs)
filterKcpLogs(logs) == WriteKept(ScanLines(logs))

----------------------------------------------------------------------------
\* runExternal's goroutines

\* A faulty variant of ReportsExitFailure: the watcher does not look at the context.
ReportsAnyFailure(i) == exitStatus[i] # 0

\* The condition under which the exit watcher reports the exit as a failure:
\* err != nil && ctx.Err() == nil, evaluated after close(shutdownComplete).
ReportsExitFailure(i) == exitStatus[i] # 0 /\ ~CtxDone(i)

\* A faulty variant of CmdWaitReturns: shutdownComplete is closed without waiting.
CmdWaitSkipped(i) == proc[i] # "none"

\* cmd.Wait() returns once the process has exited.
CmdWaitReturns(i) == proc[i] = "exited"

\* A faulty variant of WatcherClose: shutdownComplete is closed only when
\* cmd.Wait returned no error.
WatcherCloseOnSuccess(i) ==
    /\ ~crashed
    /\ ~OptRunInProcess(i)
    /\ wpc[i] = "wait"
    /\ CmdWaitReturns(i)
    /\ closes' = IF exitStatus[i] = 0 THEN [closes EXCEPT ![i] = @ + 1] ELSE closes
    /\ wpc' = [wpc EXCEPT ![i] = "check"]
    /\ UNCHANGED <<testVars, groupVars, confVars, parent, handleVars, proc,
                   exitStatus, ctxAtExit, spc, sigterm, etcdDone, sstate,
                   taskVars, callVars, histVars>>

\* err := cmd.Wait(); close(shutdownComplete)
WatcherClose(i) ==
    /\ ~crashed
    /\ ~OptRunInProcess(i)
    /\ wpc[i] = "wait"
    /\ CmdWaitReturns(i)
    /\ closes' = [closes EXCEPT ![i] = @ + 1]
    /\ wpc' = [wpc EXCEPT ![i] = "check"]
    /\ UNCHANGED <<testVars, groupVars, confVars, parent, handleVars, proc,
                   exitStatus, ctxAtExit, spc, sigterm, etcdDone, sstate,
                   taskVars, callVars, histVars>>

\* if err != nil && ctx.Err() == nil { t.Errorf(... filterKcpLogs ...) }
WatcherCheck(i) ==
    /\ ~crashed
    /\ ~OptRunInProcess(i)
    /\ wpc[i] = "check"
    /\ wpc' = [wpc EXCEPT ![i] = "done"]
    /\ terrors' = IF ReportsExitFailure(i) THEN terrors \cup {<<"exit", i>>}
                  ELSE terrors
    /\ reported' = IF ReportsExitFailure(i)
                   THEN [reported EXCEPT ![i] = <<filterKcpLogs(memLog[i])>>]
                   ELSE reported
    /\ UNCHANGED <<pc, next, cleanups, hookWaiting, returned, groupVars, confVars, parent,
                   handleVars, proc, exitStatus, ctxAtExit, spc, closes, sigterm,
                   etcdDone, sstate, taskVars, callVars, cancelCompleted, hookLate,
                   gathered, kills, crashed>>

\* cmd.Process.Pid of the process started for server i.
Pid(i) == CHOOSE k \in 1..Len(Order) : Order[k] = i

\* One call syscall.Kill(pid, sig).
Signal(p, sg) == [pid |-> p, sig |-> sg]

\* A faulty variant of SendSignal: the process is killed as exec.CommandContext
\* would, with SIGKILL to the process itself.
SendSignalKill(i) ==
    /\ ~crashed
    /\ spc[i] = "wait"
    /\ CtxDone(i)
    /\ spc' = [spc EXCEPT ![i] = "done"]
    /\ kills' = [kills EXCEPT ![i] = Append(@, Signal(Pid(i), "SIGKILL"))]
    /\ \E groupGone \in BOOLEAN :
        /\ groupGone => wpc[i] # "wait"
        /\ IF groupGone
           THEN /\ terrors' = terrors \cup {<<"kill", i>>}
                /\ UNCHANGED sigterm
           ELSE /\ sigterm' = [sigterm EXCEPT ![i] = @ + 1]
                /\ UNCHANGED terrors
    /\ UNCHANGED <<pc, next, cleanups, hookWaiting, returned, groupVars, confVars, parent,
                   handleVars, proc, exitStatus, ctxAtExit, wpc, closes, etcdDone,
                   sstate, taskVars, callVars, cancelCompleted, hookLate, gathered, crashed,
                   reported>>

\* <-ctx.Done(); syscall.Kill(-pid, SIGTERM).  Once cmd.Wait has reaped the
\* process the group may be gone (the kill fails and is reported) or still
\* hold children of a `go run` wrapper (the kill succeeds).
SendSignal(i) ==
    /\ ~crashed
    /\ spc[i] = "wait"
    /\ CtxDone(i)
    /\ spc' = [spc EXCEPT ![i] = "done"]
    /\ kills' = [kills EXCEPT ![i] = Append(@, Signal(-Pid(i), "SIGTERM"))]
    /\ \E groupGone \in BOOLEAN :
        /\ groupGone => wpc[i] # "wait"
        /\ IF groupGone
           THEN /\ terrors' = terrors \cup {<<"kill", i>>}
                /\ UNCHANGED sigterm
           ELSE /\ sigterm' = [sigterm EXCEPT ![i] = @ + 1]
                /\ UNCHANGED terrors
    /\ UNCHANGED <<pc, next, cleanups, hookWaiting, returned, groupVars, confVars, parent,
                   handleVars, proc, exitStatus, ctxAtExit, wpc, closes, etcdDone,
                   sstate, taskVars, callVars, cancelCompleted, hookLate, gathered, crashed,
                   reported>>

----------------------------------------------------------------------------
\* RunKCPInProcess's goroutine: startCmd.Execute() has returned or panicked
\* (InstanceExit).  An error returned is reported with tb.Errorf; then, also
\* while a panic unwinds, the deferred etcdCancel and close(stopCh) run in
\* that order.  Nothing recovers a panic: after the deferred calls it leaves
\* the goroutine and the Go runtime terminates the test binary.

\* A faulty variant of EtcdCtxDone: the backing store's context is a child
\* of the lifecycle context.
EtcdCtxDoneDerived(i) == etcdDone[i] \/ CtxDone(i)

\* etcdCtx of context.WithCancel(context.Background()) is done.
EtcdCtxDone(i) == etcdDone[i]

\* The entry point of server i ended in a panic.
Panicked(i) == exitStatus[i] = 2

InprocReturned(i) ==
    /\ ~crashed
    /\ OptRunInProcess(i)
    /\ wpc[i] = "wait"
    /\ proc[i] = "exited"
    /\ terrors' = IF exitStatus[i] = 1 THEN terrors \cup {<<"inproc", i>>}
                  ELSE terrors
    /\ etcdDone' = [etcdDone EXCEPT ![i] = TRUE]
    /\ wpc' = [wpc EXCEPT ![i] = "close"]
    /\ UNCHANGED <<pc, next, cleanups, hookWaiting, returned, groupVars, confVars, parent,
                   handleVars, proc, exitStatus, ctxAtExit, spc, closes, sigterm,
                   sstate, taskVars, callVars, histVars>>

InprocClose(i) ==
    /\ ~crashed
    /\ OptRunInProcess(i)
    /\ wpc[i] = "close"
    /\ closes' = [closes EXCEPT ![i] = @ + 1]
    /\ wpc' = [wpc EXCEPT ![i] = "done"]
    /\ crashed' = Panicked(i)
    /\ UNCHANGED <<testVars, groupVars, confVars, parent, handleVars, proc,
                   exitStatus, ctxAtExit, spc, sigterm, etcdDone, sstate,
                   taskVars, callVars, cancelCompleted, hookLate, gathered, kills,
                   reported>>

----------------------------------------------------------------------------
\* The accessors of the loaded config.  A result is the value returned
\* ("nil", "zero": a zero value, "config": made from c.cfg) and the error
\* returned ("nil" or "programmer error"); the accessors that take t return
\* only a value, or end the test in require.NoError ("failnow").

\* A faulty variant of config: no check of c.cfg, an empty config is returned.
configUnchecked(i) == [val |-> IF cfg[i] THEN "config" ELSE "zero", err |-> "nil"]

\* config(context): if c.cfg == nil { return nil, error }
config(i) ==
    IF ~cfg[i] THEN [val |-> "nil", err |-> "programmer error"]
    ELSE [val |-> "config", err |-> "nil"]

\* RawConfig(): if c.cfg == nil { return clientcmdapi.Config{}, error }
RawConfig(i) ==
    IF ~cfg[i] THEN [val |-> "zero", err |-> "programmer error"]
    ELSE [val |-> "config", err |-> "nil"]

\* BaseConfig(t): cfg, err := c.config("base"); require.NoError(t, err)
BaseConfig(i) ==
    IF config(i).err # "nil" THEN "failnow" ELSE config(i).val

\* RootShardSystemMasterBaseConfig(t): the same with context "shard-base".
RootShardSystemMasterBaseConfig(i) ==
    IF config(i).err # "nil" THEN "failnow" ELSE config(i).val

----------------------------------------------------------------------------
\* The readiness task of NewFixture: loadCfg, then WaitForReady

\* A faulty variant of TaskFails: a plain group, which cancels nothing on an error.
TaskFailsNoCancel(i, e) ==
    /\ tpc' = [tpc EXCEPT ![i] = "failed"]
    /\ polls' = [polls EXCEPT ![i] = 0]
    /\ lastError' = [lastError EXCEPT ![i] = NoErr]
    /\ taskErr' = [taskErr EXCEPT ![i] = e]
    /\ firstErr' = IF firstErr = <<>> THEN <<i, e>> ELSE firstErr
    /\ groupCancelled' = groupCancelled

\* errgroup: a task returned error e; the first error is kept and the
\* group's context is cancelled.  (The locals of loadCfg are gone.)
TaskFails(i, e) ==
    /\ tpc' = [tpc EXCEPT ![i] = "failed"]
    /\ polls' = [polls EXCEPT ![i] = 0]
    /\ lastError' = [lastError EXCEPT ![i] = NoErr]
    /\ taskErr' = [taskErr EXCEPT ![i] = e]
    /\ firstErr' = IF firstErr = <<>> THEN <<i, e>> ELSE firstErr
    /\ groupCancelled' = TRUE

\* The error loadCfg returns (wrapped) when its poll ended with error err:
\* lastError if one was kept, otherwise err itself.
LoadCfgResult(err, last) ==
    IF err # NoErr /\ last # NoErr THEN last ELSE err

\* A faulty variant of RecordError: every load error is kept, a missing file too.
RecordAnyError(last, err) == err

\* if !os.IsNotExist(err) { lastError = err }
RecordError(last, err) ==
    IF err # "notexist" THEN err ELSE last

\* The context the poll runs under: the group's context with the timeout.
PollCtxDone(i) == GroupCtxDone \/ polls[i] >= MaxPolls

\* A faulty variant of LoadKubeConfig: the file is found only once the server
\* is healthy.
LoadKubeConfigLate(i) ==
    CASE sstate[i] = "healthy" -> "ok"
      [] sstate[i] = "badfile" -> "invalid"
      [] OTHER                 -> "notexist"

\* What loadKubeConfig returns for the file as the server has left it.
LoadKubeConfig(i) ==
    CASE sstate[i] = "starting" -> "notexist"
      [] sstate[i] = "badfile"  -> "invalid"
      [] OTHER                  -> "ok"

\* A faulty variant of PollOnce: Cancelled() and the assignment of c.cfg do not
\* take the handle's lock.
PollOnceNoLock(i) ==
    /\ ~crashed
    /\ tpc[i] = "poll"
    /\ polls[i] = 0 \/ ~PollCtxDone(i)
    /\ IF cancelled[i]
       THEN /\ TaskFails(i, LoadCfgResult("shutdown", lastError[i]))
            /\ UNCHANGED <<cfg, topCtxDone>>
       ELSE IF LoadKubeConfig(i) = "ok"
       THEN /\ cfg' = [cfg EXCEPT ![i] = TRUE]
            /\ tpc' = [tpc EXCEPT ![i] = "ready"]
            /\ polls' = [polls EXCEPT ![i] = 0]
            /\ lastError' = [lastError EXCEPT ![i] = NoErr]
            /\ UNCHANGED <<taskErr, groupVars>>
       ELSE /\ polls' = [polls EXCEPT ![i] = @ + 1]
            /\ lastError' = [lastError EXCEPT ![i] = RecordError(@, LoadKubeConfig(i))]
            /\ UNCHANGED <<cfg, tpc, taskErr, groupVars>>
    /\ UNCHANGED <<testVars, confVars, parent, started, ownCancel, cancelled, lock,
                   procVars, sstate, probed200, monitored, callVars, histVars>>

\* One call of the poll's condition function.  The first call is made at
\* once (immediate); later calls only while the poll's context is not done.
\* Cancelled() and the assignment of c.cfg take the handle's lock.
PollOnce(i) ==
    /\ ~crashed
    /\ tpc[i] = "poll"
    /\ polls[i] = 0 \/ ~PollCtxDone(i)
    /\ lock[i] = "free"
    /\ IF cancelled[i]
       THEN /\ TaskFails(i, LoadCfgResult("shutdown", lastError[i]))
            /\ UNCHANGED <<cfg, topCtxDone>>
       ELSE IF LoadKubeConfig(i) = "ok"
       THEN /\ cfg' = [cfg EXCEPT ![i] = TRUE]
            /\ tpc' = [tpc EXCEPT ![i] = "ready"]
            /\ polls' = [polls EXCEPT ![i] = 0]
            /\ lastError' = [lastError EXCEPT ![i] = NoErr]
            /\ UNCHANGED <<taskErr, groupVars>>
       ELSE /\ polls' = [polls EXCEPT ![i] = @ + 1]
            /\ lastError' = [lastError EXCEPT ![i] = RecordError(@, LoadKubeConfig(i))]
            /\ UNCHANGED <<cfg, tpc, taskErr, groupVars>>
    /\ UNCHANGED <<testVars, confVars, parent, started, ownCancel, cancelled, lock,
                   procVars, sstate, probed200, monitored, callVars, histVars>>

\* The poll ends because its context is done: cancelled by the group, or the
\* timeout has expired.
PollStops(i) ==
    /\ ~crashed
    /\ tpc[i] = "poll"
    /\ polls[i] > 0
    /\ \E err \in {"canceled", "deadline"} :
        /\ err = "canceled" => GroupCtxDone
        /\ err = "deadline" => polls[i] >= MaxPolls
        /\ TaskFails(i, LoadCfgResult(err, lastError[i]))
    /\ UNCHANGED <<testVars, topCtxDone, confVars, parent, handleVars, procVars,
                   sstate, probed200, monitored, callVars, histVars>>

\* WaitForReady: GET /healthz until it answers 200, bounded only by the
\* context; then MonitorEndpoints unless the Config asked to run in process.
ProbeReady(i) ==
    /\ ~crashed
    /\ tpc[i] = "ready"
    /\ ~GroupCtxDone
    /\ RootShardSystemMasterBaseConfig(i) = "config"
    /\ proc[i] = "running" /\ sstate[i] = "healthy"
    /\ lock[i] = "free"
    /\ probed200' = [probed200 EXCEPT ![i] = TRUE]
    /\ monitored' = [monitored EXCEPT ![i] = ~cfgRunInProcess[i]]
    /\ tpc' = [tpc EXCEPT ![i] = "done"]
    /\ UNCHANGED <<testVars, groupVars, confVars, parent, handleVars, procVars,
                   sstate, polls, lastError, taskErr, callVars, histVars>>

ProbeStops(i) ==
    /\ ~crashed
    /\ tpc[i] = "ready"
    /\ GroupCtxDone
    /\ TaskFails(i, "canceled")
    /\ UNCHANGED <<testVars, topCtxDone, confVars, parent, handleVars, procVars,
                   sstate, probed200, monitored, callVars, histVars>>

----------------------------------------------------------------------------
\* NewFixture after the launch loop

\* A faulty variant of AllTasksReturned: Wait returns with the first task to return.
SomeTaskReturned ==
    \E k \in 1..Len(fixture) : tpc[fixture[k]] \in {"done", "failed"}

\* g.Wait() returns once every task started with g.Go has returned.
AllTasksReturned ==
    \A k \in 1..Len(fixture) : tpc[fixture[k]] \in {"done", "failed"}

\* A faulty variant of GroupWait: the metrics cleanup is registered as if before
\* every other cleanup, so that it runs after them.
GroupWaitMetricsFirst ==
    /\ ~crashed
    /\ pc = "wait"
    /\ AllTasksReturned
    /\ groupCancelled' = TRUE
    /\ IF firstErr # <<>>
       THEN /\ terrors' = terrors \cup {<<"wait", firstErr[1]>>}
            /\ pc' = "cleanup"
            /\ UNCHANGED cleanups
       ELSE IF Failed
       THEN /\ terrors' = terrors \cup {<<"setup", "-">>}
            /\ pc' = "cleanup"
            /\ UNCHANGED cleanups
       ELSE /\ cleanups' = <<Hook("metrics", "-")>> \o cleanups
            /\ pc' = "body"
            /\ UNCHANGED terrors
    /\ returned' = (firstErr = <<>> /\ ~Failed)
    /\ UNCHANGED <<next, hookWaiting, topCtxDone, firstErr, confVars, parent,
                   handleVars, procVars, sstate, taskVars, callVars, histVars>>

\* A faulty variant of GroupWait: the error of g.Wait ends the test at once,
\* no cleanup is run.
GroupWaitExits ==
    /\ ~crashed
    /\ pc = "wait"
    /\ AllTasksReturned
    /\ groupCancelled' = TRUE
    /\ IF firstErr # <<>>
       THEN /\ terrors' = terrors \cup {<<"wait", firstErr[1]>>}
            /\ pc' = "done"
            /\ UNCHANGED cleanups
       ELSE IF Failed
       THEN /\ terrors' = terrors \cup {<<"setup", "-">>}
            /\ pc' = "cleanup"
            /\ UNCHANGED cleanups
       ELSE /\ cleanups' = Append(cleanups, Hook("metrics", "-"))
            /\ pc' = "body"
            /\ UNCHANGED terrors
    /\ returned' = (firstErr = <<>> /\ ~Failed)
    /\ UNCHANGED <<next, hookWaiting, topCtxDone, firstErr, confVars, parent,
                   handleVars, procVars, sstate, taskVars, callVars, histVars>>

\* err := g.Wait(); require.NoError; scrapeMetricsForServer; if t.Failed()
\* { t.Fatal }; t.Cleanup(gather metrics); return ret
GroupWait ==
    /\ ~crashed
    /\ pc = "wait"
    /\ AllTasksReturned
    /\ groupCancelled' = TRUE
    /\ IF firstErr # <<>>
       THEN /\ terrors' = terrors \cup {<<"wait", firstErr[1]>>}
            /\ pc' = "cleanup"
            /\ UNCHANGED cleanups
       ELSE IF Failed
       THEN /\ terrors' = terrors \cup {<<"setup", "-">>}
            /\ pc' = "cleanup"
            /\ UNCHANGED cleanups
       ELSE /\ cleanups' = Append(cleanups, Hook("metrics", "-"))
            /\ pc' = "body"
            /\ UNCHANGED terrors
    /\ returned' = (firstErr = <<>> /\ ~Failed)
    /\ UNCHANGED <<next, hookWaiting, topCtxDone, firstErr, confVars, parent,
                   handleVars, procVars, sstate, taskVars, callVars, histVars>>

\* The test function returns (or fails): its cleanups run.
TestEnd ==
    /\ ~crashed
    /\ pc = "body"
    /\ pc' = "cleanup"
    /\ UNCHANGED <<next, cleanups, hookWaiting, terrors, returned, groupVars, confVars, parent,
                   handleVars, procVars, sstate, taskVars, callVars, histVars>>

----------------------------------------------------------------------------
\* c.cancel (the closure Run builds) and kcpServer.Cancel

\* A faulty variant of ShutdownCompleteClosed: c.cancel does not wait for the channel.
ShutdownNotAwaited(i) == TRUE

\* <-shutdownComplete returns once the channel is closed.
ShutdownCompleteClosed(i) == closes[i] > 0

\* A faulty variant of CancelBegin: no check of c.cancel, the flag is set on
\* a handle that was never started.
CancelBeginNoNilCheck(c, i) ==
    /\ ~crashed
    /\ IF earlyCancel THEN pc # "done" ELSE pc \in {"body", "cleanup"}
    /\ cpc[c] = "idle"
    /\ cancelCalls < MaxCancels
    /\ lock[i] = "free"
    /\ cancelCalls' = cancelCalls + 1
    /\ IF started[i]
       THEN /\ ownCancel' = [ownCancel EXCEPT ![i] = TRUE]
            /\ lock' = [lock EXCEPT ![i] = c]
            /\ cpc' = [cpc EXCEPT ![c] = "waiting"]
            /\ ctarget' = [ctarget EXCEPT ![c] = i]
            /\ clate' = [clate EXCEPT ![c] = cancelCompleted[i]]
            /\ UNCHANGED cancelled
       ELSE /\ cancelled' = [cancelled EXCEPT ![i] = TRUE]
            /\ UNCHANGED <<ownCancel, lock, cpc, ctarget, clate>>
    /\ UNCHANGED <<testVars, groupVars, confVars, parent, started, cfg,
                   procVars, sstate, taskVars, histVars>>

\* Cancel(): Lock; if c.cancel == nil return; c.cancel() cancels the context
\* and blocks on shutdownComplete with the lock held.
CancelBegin(c, i) ==
    /\ ~crashed
    /\ IF earlyCancel THEN pc # "done" ELSE pc \in {"body", "cleanup"}
    /\ cpc[c] = "idle"
    /\ cancelCalls < MaxCancels
    /\ lock[i] = "free"
    /\ cancelCalls' = cancelCalls + 1
    /\ IF started[i]
       THEN /\ ownCancel' = [ownCancel EXCEPT ![i] = TRUE]
            /\ lock' = [lock EXCEPT ![i] = c]
            /\ cpc' = [cpc EXCEPT ![c] = "waiting"]
            /\ ctarget' = [ctarget EXCEPT ![c] = i]
            /\ clate' = [clate EXCEPT ![c] = cancelCompleted[i]]
       ELSE UNCHANGED <<ownCancel, lock, cpc, ctarget, clate>>
    /\ UNCHANGED <<testVars, groupVars, confVars, parent, started, cancelled, cfg,
                   procVars, sstate, taskVars, histVars>>

\* A faulty variant of CancelReturn: Cancel returns without Unlock.
CancelReturnKeepsLock(c) ==
    /\ ~crashed
    /\ cpc[c] = "waiting"
    /\ ShutdownCompleteClosed(ctarget[c])
    /\ cancelled' = [cancelled EXCEPT ![ctarget[c]] = TRUE]
    /\ lock' = lock
    /\ cpc' = [cpc EXCEPT ![c] = "idle"]
    /\ cancelCompleted' = [cancelCompleted EXCEPT ![ctarget[c]] = TRUE]
    /\ UNCHANGED <<testVars, groupVars, confVars, parent, started, ownCancel, cfg,
                   procVars, sstate, taskVars, ctarget, clate, cancelCalls, hookLate,
                   gathered, kills, crashed,
                   reported>>

\* ... shutdownComplete is closed: c.cancel() returns; c.cancelled = true; Unlock.
CancelReturn(c) ==
    /\ ~crashed
    /\ cpc[c] = "waiting"
    /\ ShutdownCompleteClosed(ctarget[c])
    /\ cancelled' = [cancelled EXCEPT ![ctarget[c]] = TRUE]
    /\ lock' = [lock EXCEPT ![ctarget[c]] = "free"]
    /\ cpc' = [cpc EXCEPT ![c] = "idle"]
    /\ cancelCompleted' = [cancelCompleted EXCEPT ![ctarget[c]] = TRUE]
    /\ UNCHANGED <<testVars, groupVars, confVars, parent, started, ownCancel, cfg,
                   procVars, sstate, taskVars, ctarget, clate, cancelCalls, hookLate,
                   gathered, kills, crashed,
                   reported>>

----------------------------------------------------------------------------
\* t's cleanups, run last registered first once the test has ended

TopHook == cleanups[Len(cleanups)]
Pop(s) == SubSeq(s, 1, Len(s) - 1)

\* A faulty variant of HookCancelBegin: the hook waits for the completion
\* signal without cancelling the lifecycle context.
HookCancelBeginNoCancel ==
    /\ ~crashed
    /\ pc = "cleanup" /\ cleanups # <<>>
    /\ TopHook.kind = "cancel"
    /\ ~hookWaiting
    /\ hookWaiting' = TRUE
    /\ ownCancel' = ownCancel
    /\ hookLate' = cancelCompleted[TopHook.srv]
    /\ UNCHANGED <<pc, next, cleanups, terrors, returned, groupVars, confVars, parent,
                   started, cancelled, cfg, lock, procVars, sstate, taskVars,
                   callVars, cancelCompleted, gathered, kills, crashed,
                   reported>>

\* t.Cleanup(c.cancel), first half: ctxCancel()
HookCancelBegin ==
    /\ ~crashed
    /\ pc = "cleanup" /\ cleanups # <<>>
    /\ TopHook.kind = "cancel"
    /\ ~hookWaiting
    /\ hookWaiting' = TRUE
    /\ ownCancel' = [ownCancel EXCEPT ![TopHook.srv] = TRUE]
    /\ hookLate' = cancelCompleted[TopHook.srv]
    /\ UNCHANGED <<pc, next, cleanups, terrors, returned, groupVars, confVars, parent,
                   started, cancelled, cfg, lock, procVars, sstate, taskVars,
                   callVars, cancelCompleted, gathered, kills, crashed,
                   reported>>

\* t.Cleanup(c.cancel), second half: <-shutdownComplete
HookCancelReturn ==
    /\ ~crashed
    /\ pc = "cleanup" /\ cleanups # <<>>
    /\ TopHook.kind = "cancel"
    /\ hookWaiting
    /\ ShutdownCompleteClosed(TopHook.srv)
    /\ hookWaiting' = FALSE
    /\ cleanups' = Pop(cleanups)
    /\ cancelCompleted' = [cancelCompleted EXCEPT ![TopHook.srv] = TRUE]
    /\ UNCHANGED <<pc, next, terrors, returned, groupVars, confVars, parent, handleVars,
                   procVars, sstate, taskVars, callVars, hookLate,
                   gathered, kills, crashed,
                   reported>>

\* The other cleanups: NewFixture's cancel of its context, the log file's
\* Close, the gathering of metrics.
HookOther ==
    /\ ~crashed
    /\ pc = "cleanup" /\ cleanups # <<>>
    /\ TopHook.kind \notin {"cancel", "artifact"}
    /\ TopHook.kind = "metrics" => Len(gathered) = Len(fixture)
    /\ cleanups' = Pop(cleanups)
    /\ topCtxDone' = (topCtxDone \/ TopHook.kind = "ctxcancel")
    /\ UNCHANGED <<pc, next, hookWaiting, terrors, returned, groupCancelled, firstErr,
                   confVars, parent, handleVars, procVars, sstate, taskVars,
                   callVars, histVars>>

\* The cleanup NewFixture registers last: for _, s := range servers
\* { gatherMetrics(ctx, t, s, s.artifactDir) }, one server per step.
GatherMetrics ==
    /\ ~crashed
    /\ pc = "cleanup" /\ cleanups # <<>>
    /\ TopHook.kind = "metrics"
    /\ Len(gathered) < Len(fixture)
    /\ gathered' = Append(gathered, fixture[Len(gathered) + 1])
    /\ UNCHANGED <<testVars, groupVars, confVars, parent, handleVars, procVars,
                   sstate, taskVars, callVars, cancelCompleted, hookLate, kills, crashed,
                   reported>>

CleanupDone ==
    /\ ~crashed
    /\ pc = "cleanup" /\ cleanups = <<>>
    /\ pc' = "done"
    /\ UNCHANGED <<next, cleanups, hookWaiting, terrors, returned, groupVars, confVars, parent,
                   handleVars, procVars, sstate, taskVars, callVars, histVars>>

----------------------------------------------------------------------------
\* The steps of every fixture.
NextCommon ==
    \/ \E i \in Servers : LaunchServer(i)
    \/ \E i \in Servers : ServerProgress(i)
    \/ \E i \in Servers, st \in {0, 1, 2} : InstanceExit(i, st)
    \/ \E i \in Servers : WatcherClose(i)
    \/ \E i \in Servers : WatcherCheck(i)
    \/ \E i \in Servers : SendSignal(i)
    \/ \E i \in Servers : InprocReturned(i)
    \/ \E i \in Servers : InprocClose(i)
    \/ \E i \in Servers : PollOnce(i)
    \/ \E i \in Servers : PollStops(i)
    \/ \E i \in Servers : ProbeReady(i)
    \/ GroupWait
    \/ TestEnd
    \/ HookCancelBegin
    \/ HookCancelReturn
    \/ HookOther
    \/ GatherMetrics
    \/ CleanupDone

\* A fixture of several servers: a readiness probe can be interrupted by the
\* failure of a sibling's task.
NextFixture ==
    \/ NextCommon
    \/ \E i \in Servers : ProbeStops(i)

\* A fixture of one server (the group's context is cancelled only once the
\* one task has returned, so no probe is interrupted), with goroutines that
\* call Cancel() and a caller of NewFixture that cancels the RunInProcessCtx
\* it gave.
NextHandle ==
    \/ NextCommon
    \/ \E i \in Servers : ParentCancel(i)
    \/ \E c \in Callers, i \in Servers : CancelBegin(c, i)
    \/ \E c \in Callers : CancelReturn(c)

Spec == Init /\ [][NextFixture]_vars

SpecHandle == InitHandle /\ [][NextHandle]_vars

----------------------------------------------------------------------------
\* The output of an external process

\* What the process writes in one piece: an ordinary line or a noisy one.
Chunks == {<<"g", "nl">>, Noise \o <<"nl">>}

\* The number of pieces a process writes.
MaxOut == 2

\* A faulty variant of LogFileOpen: runExternal closes the file when it returns
\* (defer logFile.Close()).
LogFileClosedEarly(i) == FALSE

\* kcp.log of server i is open: os.Create succeeded and the cleanup that
\* closes the file has not run.
LogFileOpen(i) == \E k \in 1..Len(cleanups) : cleanups[k] = Hook("logclose", i)

\* The process writes to its stdout or stderr; os/exec copies the piece to
\* io.MultiWriter(&log, logFile), which writes to the buffer, then to the
\* file, and gives up at the first writer that fails.
ProcWrites(i, chunk) ==
    /\ ~crashed
    /\ ~OptRunInProcess(i)
    /\ proc[i] = "running"
    /\ Len(Lines(emitted[i])) < MaxOut
    /\ emitted' = [emitted EXCEPT ![i] = @ \o chunk]
    /\ memLog' = [memLog EXCEPT ![i] = @ \o chunk]
    /\ fileLog' = IF LogFileOpen(i) THEN [fileLog EXCEPT ![i] = @ \o chunk]
                  ELSE fileLog
    /\ UNCHANGED <<fixtureVars, newVars, funcVars, artVars>>

\* A fixture of one server whose process writes its log.
InitLog ==
    /\ fixture = SubSeq(Order, 1, 1)
    /\ earlyCancel = FALSE
    /\ InitConfig
    /\ \A i \in Servers \ {Order[1]} : ~cfgRunInProcess[i] /\ parent[i] = "none"
    /\ InitState
    /\ InitMade
    /\ InitUncalled

NextLog ==
    \/ NextCommon
    \/ \E i \in Servers, chunk \in Chunks : ProcWrites(i, chunk)

SpecLog == InitLog /\ [][NextLog]_vars

----------------------------------------------------------------------------
\* kcpServer.Artifact: producers registered by the test, run as cleanups

\* What the cleanup of a producer can run into: the producer's error, an
\* object without metadata, a directory that cannot be made, a kind no
\* scheme knows, a file that cannot be written.
ArtifactOutcomes == {"ok", "producer", "nometa", "mkdir", "nogvk", "write"}

\* The frame of the steps below.
artFrame == <<next, hookWaiting, returned, groupVars, fixture, earlyCancel,
              cfgRunInProcess, envInProcess, runInProcessFuncSet, newVars, funcVars,
              outVars, parent, handleVars, procVars, sstate, taskVars, callVars,
              histVars>>

\* A faulty variant of WithArtifactHook: the producer's cleanup runs after the
\* cleanups registered before it.
WithArtifactHookLast(p) == <<Hook("artifact", p)>> \o cleanups

\* t.Cleanup(func() { data, err := producer() ... })
WithArtifactHook(p) == Append(cleanups, Hook("artifact", p))

\* The test calls srv.Artifact(t, producer): createTempDirForTest, then
\* t.Cleanup.  If the directory cannot be made, require.NoError ends the test
\* and nothing is registered.
RegisterArtifact(p, i, ok) ==
    /\ ~crashed
    /\ pc = "body"
    /\ i \in {fixture[k] : k \in 1..Len(fixture)}
    /\ artSrv[p] = "-"
    /\ IF ok
       THEN /\ cleanups' = WithArtifactHook(p)
            /\ registered' = Append(registered, p)
            /\ artSrv' = [artSrv EXCEPT ![p] = i]
            /\ UNCHANGED <<pc, terrors>>
       ELSE /\ terrors' = terrors \cup {<<"artifactdir", p>>}
            /\ pc' = "cleanup"
            /\ UNCHANGED <<cleanups, registered, artSrv>>
    /\ UNCHANGED <<artFrame, invoked>>

\* A faulty variant of AfterArtifact: a failed require ends the run of the cleanups.
AfterArtifactFatal(o) == IF o = "ok" THEN Pop(cleanups) ELSE <<>>

\* The cleanups left to run after a producer's cleanup has ended with
\* outcome o: a failed require ends only the cleanup it is in (t.FailNow in a
\* cleanup), the testing package goes on with the others.
AfterArtifact(o) == Pop(cleanups)

\* The cleanup of a producer: data, err := producer(); ... os.WriteFile.
HookArtifact(o) ==
    /\ ~crashed
    /\ pc = "cleanup" /\ cleanups # <<>>
    /\ TopHook.kind = "artifact"
    /\ invoked' = invoked \cup {TopHook.srv}
    /\ terrors' = IF o = "ok" THEN terrors ELSE terrors \cup {<<"artifact", TopHook.srv>>}
    /\ cleanups' = AfterArtifact(o)
    /\ UNCHANGED <<pc, artFrame, registered, artSrv>>

\* A fixture of one server in a test that registers producers.
InitArtifact ==
    /\ fixture = SubSeq(Order, 1, 1)
    /\ earlyCancel = FALSE
    /\ InitConfig
    /\ \A i \in Servers \ {Order[1]} : ~cfgRunInProcess[i] /\ parent[i] = "none"
    /\ InitState
    /\ InitMade
    /\ InitUncalled

NextArtifact ==
    \/ NextCommon
    \/ \E p \in Producers, i \in Servers, ok \in BOOLEAN : RegisterArtifact(p, i, ok)
    \/ \E o \in ArtifactOutcomes : HookArtifact(o)

SpecArtifact == InitArtifact /\ [][NextArtifact]_vars

----------------------------------------------------------------------------
\* The first loop of NewFixture, which makes the handles, and unusedPorts
\* called by tests that run at the same time

\* The values of Config.Name and Config.DataDir in the lists given.
Names == Servers
DataDirs == {<<"data">>, <<"data", ".">>, <<"tmp">>}

\* NewFixture is called with any list of Configs of the length of Order.
InitNew ==
    /\ fixture = Order
    /\ earlyCancel = FALSE
    /\ cfgRunInProcess = [i \in Servers |-> FALSE]
    /\ envInProcess = FALSE
    /\ runInProcessFuncSet = FALSE
    /\ parent = [i \in Servers |-> "none"]
    /\ InitState
    /\ InitUncalled
    /\ cfgName \in [Servers -> Names]
    /\ cfgDataDir \in [Servers -> DataDirs]
    /\ dataDir = [i \in Servers |-> <<>>]
    /\ made = 0
    /\ newErr = FALSE
    /\ ports = [t \in Allocators |-> <<>>]
    /\ open = [t \in Allocators |-> {}]
    /\ apc = [t \in Allocators |-> "idle"]
    /\ bound = [t \in Allocators |-> 0]

\* srv, err := newKcpServer(t, cfg); require.NoError(t, err) for the next
\* Config of the list: the handle gets its data directory, or a port or a
\* directory could not be had and the test ends.
NewKcpServer(i, ok) ==
    /\ ~newErr
    /\ made < Len(Order)
    /\ i = Order[made + 1]
    /\ IF ok
       THEN /\ dataDir' = [dataDir EXCEPT ![i] = Join(cfgDataDir[i], cfgName[i])]
            /\ made' = made + 1
            /\ UNCHANGED newErr
       ELSE /\ newErr' = TRUE
            /\ UNCHANGED <<dataDir, made>>
    /\ UNCHANGED <<fixtureVars, funcVars, outVars, artVars, cfgName, cfgDataDir, ports, open, apc, bound>>

\* The ports some listener of a caller of unusedPorts holds.
PortsInUse == UNION {open[t] : t \in Allocators}

\* A test calls unusedPorts.
UnusedPortsCall(t) ==
    /\ apc[t] = "idle"
    /\ apc' = [apc EXCEPT ![t] = "run"]
    /\ UNCHANGED <<fixtureVars, funcVars, outVars, artVars, cfgName, cfgDataDir, dataDir, made, newErr, ports, open, bound>>

\* A faulty variant of UnusedPort: the listener is closed as soon as its port
\* has been read.
UnusedPortClosed(t, p) ==
    /\ apc[t] = "run"
    /\ Len(ports[t]) < 3
    /\ p \in PortRange \ PortsInUse
    /\ ports' = [ports EXCEPT ![t] = Append(@, p)]
    /\ open' = open
    /\ bound' = [bound EXCEPT ![t] = @ + 1]
    /\ UNCHANGED <<fixtureVars, funcVars, outVars, artVars, cfgName, cfgDataDir, dataDir, made, newErr, apc>>

\* unusedPort: net.Listen("tcp", "127.0.0.1:0") gives a port that is not in
\* use; the listener stays open until unusedPorts returns.
UnusedPort(t, p) ==
    /\ apc[t] = "run"
    /\ Len(ports[t]) < 3
    /\ p \in PortRange \ PortsInUse
    /\ ports' = [ports EXCEPT ![t] = Append(@, p)]
    /\ open' = [open EXCEPT ![t] = @ \cup {p}]
    /\ bound' = [bound EXCEPT ![t] = @ + 1]
    /\ UNCHANGED <<fixtureVars, funcVars, outVars, artVars, cfgName, cfgDataDir, dataDir, made, newErr, apc>>

\* A faulty variant of UnusedPortFails: the listeners bound so far are not
\* closed on the error return.
UnusedPortFailsLeaks(t) ==
    /\ apc[t] = "run"
    /\ Len(ports[t]) < 3
    /\ ports' = [ports EXCEPT ![t] = <<>>]
    /\ open' = open
    /\ apc' = [apc EXCEPT ![t] = "failed"]
    /\ UNCHANGED <<fixtureVars, funcVars, outVars, artVars, cfgName, cfgDataDir, dataDir, made, newErr, bound>>

\* net.Listen fails: unusedPorts returns 0, 0, 0 and the error; the deferred
\* closes run.
UnusedPortFails(t) ==
    /\ apc[t] = "run"
    /\ Len(ports[t]) < 3
    /\ ports' = [ports EXCEPT ![t] = <<>>]
    /\ open' = [open EXCEPT ![t] = {}]
    /\ apc' = [apc EXCEPT ![t] = "failed"]
    /\ UNCHANGED <<fixtureVars, funcVars, outVars, artVars, cfgName, cfgDataDir, dataDir, made, newErr, bound>>

\* return port1, port2, port3, nil: the deferred closes run.
UnusedPortsReturn(t) ==
    /\ apc[t] = "run"
    /\ Len(ports[t]) = 3
    /\ open' = [open EXCEPT ![t] = {}]
    /\ apc' = [apc EXCEPT ![t] = "done"]
    /\ UNCHANGED <<fixtureVars, funcVars, outVars, artVars, cfgName, cfgDataDir, dataDir, made, newErr, ports, bound>>

NextNew ==
    \/ \E i \in Servers, ok \in BOOLEAN : NewKcpServer(i, ok)
    \/ \E t \in Allocators : UnusedPortsCall(t)
    \/ \E t \in Allocators, p \in PortRange : UnusedPort(t, p)
    \/ \E t \in Allocators : UnusedPortFails(t)
    \/ \E t \in Allocators : UnusedPortsReturn(t)

SpecNew == InitNew /\ [][NextNew]_vars

C15_DataDirsDistinct ==
    \A i, j \in Servers :
        (i # j /\ dataDir[i] # <<>> /\ dataDir[j] # <<>>) => dataDir[i] # dataDir[j]

----------------------------------------------------------------------------
\* Command, called in one environment per behaviour

\* filepath.Join of two paths.
JoinPath(a, b) == Clean(a \o b)

\* strings.HasPrefix(p, dir + "/")
HasDirPrefix(p, dir) ==
    Len(p) > Len(dir) /\ SubSeq(p, 1, Len(dir)) = dir

\* kcptestinghelpers.RepositoryDir() and RepositoryBinDir()
RepositoryDir == <<"repo">>
RepositoryBinDir == JoinPath(RepositoryDir, <<"bin">>)

\* A token of a command line that is no path.
Word(w) == <<w>>

\* Command(executableName, identity): the tokens that start the executable.
Command(executableName, identity) ==
    IF envDelve
    THEN <<Word("dlv"), Word("debug"), Word("--api-version=2"), Word("--headless"),
           <<"--listen=unix:dlv-", identity, ".sock">>,
           JoinPath(RepositoryDir, <<"cmd", executableName>>), Word("--")>>
    ELSE LET inKcp == HasDirPrefix(wd, RepositoryDir)
             binary == IF envBinDir = <<>> /\ inKcp
                       THEN JoinPath(RepositoryBinDir, <<executableName>>)
                       ELSE IF envBinDir # <<>>
                       THEN JoinPath(envBinDir, <<executableName>>)
                       ELSE <<executableName>>
         IN IF envNoGoRun \/ ~inKcp
            THEN <<binary>>
            ELSE <<Word("go"), Word("run"),
                   JoinPath(RepositoryDir, <<"cmd", executableName>>)>>

\* StartKcpCommand(identity)
StartKcpCommand(identity) == Append(Command("kcp", identity), Word("start"))

\* The environments and working directories Command is called in.
BinDirs == {<<>>, <<"opt", "bin">>, <<"repo", "bin">>}
WorkDirs == {<<"repo">>, <<"repo", "test", "e2e">>, <<"tmp", "repo">>, <<"home">>}
ExecutableNames == {"kcp", "cache-server"}

CallCommand ==
    /\ cmdOut = <<>>
    /\ cmdOut' = Command(exeName, "KCP")
    /\ UNCHANGED <<fixtureVars, newVars, outVars, artVars, callInVars, filterOut,
                   filterCalled>>

----------------------------------------------------------------------------
\* filterKcpLogs, called on one captured log per behaviour

CallFilter ==
    /\ ~filterCalled
    /\ filterCalled' = TRUE
    /\ filterOut' = filterKcpLogs(rawLog)
    /\ UNCHANGED <<fixtureVars, newVars, outVars, artVars, callInVars, cmdOut>>

\* All byte sequences of a length up to n.
RECURSIVE SeqsUpTo(_)
SeqsUpTo(n) ==
    IF n = 0 THEN {<<>>}
    ELSE LET shorter == SeqsUpTo(n - 1)
         IN shorter \cup {Append(q, b) : q \in shorter, b \in Bytes}

\* One call of Command in some environment, or one call of filterKcpLogs on
\* some log; no fixture is launched.
InitCalls ==
    /\ fixture = Order
    /\ earlyCancel = FALSE
    /\ cfgRunInProcess = [i \in Servers |-> FALSE]
    /\ envInProcess = FALSE
    /\ runInProcessFuncSet = FALSE
    /\ parent = [i \in Servers |-> "none"]
    /\ InitState
    /\ InitMade
    /\ cmdOut = <<>> /\ filterOut = <<>> /\ filterCalled = FALSE
    /\ \/ /\ envDelve \in BOOLEAN /\ envNoGoRun \in BOOLEAN
          /\ envBinDir \in BinDirs /\ wd \in WorkDirs
          /\ exeName \in ExecutableNames
          /\ rawLog = <<>>
       \/ /\ envDelve = FALSE /\ envNoGoRun = FALSE /\ envBinDir = <<>>
          /\ wd = <<"repo", "test">> /\ exeName = "kcp"
          /\ rawLog \in SeqsUpTo(MaxLog)

NextCalls ==
    \/ CallCommand
    \/ CallFilter

SpecCalls == InitCalls /\ [][NextCalls]_vars

\* C24: with KCP_BINARIES_DIR set and the debugger not selected, Command
\* returns one token, the executable's path inside that directory.
C24_BinDirSkipsGoRun ==
    (cmdOut # <<>> /\ envBinDir # <<>> /\ ~envDelve)
        => cmdOut = <<JoinPath(envBinDir, <<exeName>>)>>

\* The lines of lines that do not contain Noise, each followed by a newline.
RECURSIVE KeptLines(_)
KeptLines(lines) ==
    IF lines = <<>> THEN <<>>
    ELSE (IF Contains(Head(lines), Noise) THEN <<>> ELSE Head(lines) \o <<"nl">>)
         \o KeptLines(Tail(lines))

\* C25: filterKcpLogs returns the lines of the log that do not contain the
\* noisy substring, in their order and unchanged, and no others.
C25_FilterKeepsExactlyCleanLines ==
    filterCalled => filterOut = KeptLines(Lines(rawLog))

----------------------------------------------------------------------------
\* Properties

InFixture == {fixture[k] : k \in 1..Len(fixture)}

\* The instance has been asked to stop and has stopped.
Stopped(i) == CtxDone(i) /\ ShutdownCompleteClosed(i) /\ proc[i] = "exited"

\* C1: NewFixture returns the Fixture only after, for every instance, the
\* config load has succeeded and a later /healthz probe has returned 200.
C1_ReadyBeforeReturn ==
    /\ returned => \A i \in InFixture : cfg[i] /\ probed200[i]
    /\ \A i \in Servers : probed200[i] => cfg[i]

C1_Witness ==
    /\ returned /\ pc = "body"
    /\ \A i \in InFixture : probed200[i] /\ proc[i] = "running"

\* C2: Cancel() and the teardown hook registered by Run cancel the lifecycle
\* context first and return only once shutdownComplete is closed, that is
\* never while the instance is still running.
C2_CancelWaitsForCompletion ==
    [][ /\ \A c \in Callers :
            /\ cpc'[c] = "waiting" => ownCancel'[ctarget'[c]]
            /\ (cpc[c] = "waiting" /\ cpc'[c] = "idle") => Stopped(ctarget[c])
        /\ hookWaiting' => ownCancel'[cleanups'[Len(cleanups')].srv]
        /\ (hookWaiting /\ ~hookWaiting') => Stopped(TopHook.srv)
      ]_vars

C2_Witness ==
    \E i \in Servers : cancelled[i] /\ lock[i] = "free" /\ Stopped(i)

\* A step of a cancel (Cancel() or the teardown hook) of started instance i
\* that began after an earlier cancel of i had returned.
LateCancelStep(i) ==
    \/ \E c \in Callers :
         \/ cpc[c] = "idle" /\ cpc'[c] = "waiting" /\ ctarget'[c] = i
              /\ cancelCompleted[i]
         \/ cpc[c] = "waiting" /\ cpc'[c] = "idle" /\ ctarget[c] = i /\ clate[c]
    \/ /\ pc = "cleanup" /\ cleanups # <<>>
       /\ TopHook.kind = "cancel" /\ TopHook.srv = i
       /\ \/ ~hookWaiting /\ hookWaiting' /\ cancelCompleted[i]
          \/ hookWaiting /\ ~hookWaiting' /\ hookLate

\* A cancel that began after an earlier one had returned is not waiting for
\* a completion signal that is still open.
LateNeverBlocks ==
    /\ \A c \in Callers :
         (cpc[c] = "waiting" /\ clate[c]) => closes[ctarget[c]] > 0
    /\ (hookWaiting /\ hookLate) => closes[TopHook.srv] > 0

\* C3 as claimed: every cancel after the first changes no state of the
\* handle, does not block, and shutdownComplete is closed at most once.
C3_LaterCancelChangesNothing ==
    [][ /\ \A i \in Servers :
            /\ LateCancelStep(i) =>
                 UNCHANGED <<ownCancel[i], cancelled[i], closes[i], proc[i],
                             cfg[i], started[i]>>
            /\ closes'[i] <= 1
        /\ LateNeverBlocks'
      ]_vars

\* C3 as amended: every cancel after the first leaves the lifecycle context,
\* the instance and the completion signal as they are, does not block, and
\* shutdownComplete is closed at most once; the cancelled flag alone may
\* still change, from false to true, when the cancel is a Cancel() call and
\* the cancels that returned before it were teardown hooks.
C3_LaterCancelIdempotent ==
    [][ /\ \A i \in Servers :
            /\ LateCancelStep(i) =>
                 /\ UNCHANGED <<ownCancel[i], closes[i], proc[i], cfg[i], started[i]>>
                 /\ cancelled[i] => cancelled'[i]
                 /\ cancelled'[i] # cancelled[i] =>
                      \E c \in Callers : cpc[c] = "waiting" /\ cpc'[c] = "idle"
            /\ closes'[i] <= 1
        /\ LateNeverBlocks'
      ]_vars

C3_Witness ==
    \E c \in Callers :
        /\ clate[c] /\ cpc[c] = "idle"
        /\ cancelled[ctarget[c]] /\ closes[ctarget[c]] = 1

\* C4: a started server is stopped when the test has ended, whether or not
\* the stop function was called; after the stop function has returned the
\* teardown hook does not block and reports nothing on t.
C4_StoppedAtTestEnd ==
    [][ /\ pc' = "done" => \A i \in Servers : started'[i] => Stopped(i)'
        /\ (hookWaiting' /\ hookLate') => closes'[cleanups'[Len(cleanups')].srv] > 0
        /\ hookWaiting' # hookWaiting => terrors' = terrors
      ]_vars

C4_Witness ==
    /\ pc = "done" /\ hookLate
    /\ \E i \in InFixture : started[i] /\ cancelled[i] /\ Stopped(i)

\* C5: for an external instance whose lifecycle context was cancelled before
\* the process exited, no failure is reported for the exit, whatever the
\* exit status.
C5_NoFailureAfterCancel ==
    \A i \in Servers :
        (~OptRunInProcess(i) /\ ctxAtExit[i]) => <<"exit", i>> \notin terrors

C5_Witness ==
    \E i \in Servers :
        /\ ~OptRunInProcess(i) /\ ctxAtExit[i]
        /\ exitStatus[i] = 1 /\ wpc[i] = "done"

\* C6: for an external instance that exited with a non-zero status while its
\* lifecycle context was not cancelled, a failure is reported for the exit
\* once the exit watcher has finished, whatever Cancel calls came after the
\* exit.
C6_FailureReportedForCrash ==
    \A i \in Servers :
        (~OptRunInProcess(i) /\ wpc[i] = "done" /\ exitStatus[i] # 0 /\ ~ctxAtExit[i])
            => <<"exit", i>> \in terrors

\* The progress a readiness task still has to make before it returns.
TaskRank(i) ==
    CASE tpc[i] = "poll" /\ polls[i] = 0 -> 3
      [] tpc[i] = "poll"                 -> 2
      [] tpc[i] = "ready"                -> 1
      [] OTHER                           -> 0

\* C7: the first error of a readiness task cancels the group's context; from
\* then on every task still running can take a step (as long as the test
\* binary runs), every step it takes
\* brings it closer to returning and none makes it succeed; and the error
\* g.Wait gives NewFixture is reported when every task has returned, and is
\* the first one.
C7_FailFast ==
    /\ [](firstErr # <<>> => groupCancelled)
    /\ [](\A i \in Servers :
            <<"wait", i>> \in terrors =>
                AllTasksReturned /\ firstErr # <<>> /\ firstErr[1] = i)
    /\ [](\A i \in Servers :
            (/\ GroupCtxDone /\ tpc[i] \in {"poll", "ready"} /\ lock[i] = "free"
             /\ ~crashed) =>
                ENABLED (PollOnce(i) \/ PollStops(i) \/ ProbeStops(i)))
    /\ [][ /\ firstErr # <<>> => firstErr' = firstErr
           /\ \A i \in Servers :
                (/\ GroupCtxDone /\ tpc[i] \in {"poll", "ready"}
                 /\ <<tpc[i], polls[i]>>' # <<tpc[i], polls[i]>>) =>
                    /\ TaskRank(i)' < TaskRank(i)
                    /\ tpc'[i] # "done"
         ]_vars

C7_Witness ==
    \E i, j \in InFixture :
        /\ i # j
        /\ <<"wait", i>> \in terrors
        /\ taskErr[i] \notin {NoErr, "canceled"}
        /\ taskErr[j] = "canceled"

C9_MissingFileNotReported ==
    [][ \A i \in Servers :
          /\ (polls'[i] = polls[i] + 1 /\ LoadKubeConfig(i) = "notexist") =>
                lastError'[i] = lastError[i] /\ tpc'[i] = "poll"
          /\ lastError'[i] # "notexist" /\ taskErr'[i] # "notexist"
          /\ (tpc[i] = "poll" /\ tpc'[i] = "failed"
                /\ polls[i] >= MaxPolls /\ ~GroupCtxDone) =>
                taskErr'[i] = IF lastError[i] # NoErr THEN lastError[i]
                              ELSE "deadline"
      ]_vars

C9_Witness ==
    \E i \in InFixture :
        /\ firstErr = <<i, "invalid">> /\ ~cancelled[i]
        /\ <<"wait", i>> \in terrors

\* C10: when loadCfg's poll ends because the context it was given is
\* cancelled, or because the instance is marked cancelled, loadCfg returns
\* the server-has-been-shutdown error, whatever load errors came before.
C10_ShutdownErrorOnCancel ==
    [][ \A i \in Servers :
          (/\ tpc[i] = "poll" /\ tpc'[i] = "failed"
           /\ \/ GroupCtxDone /\ polls[i] < MaxPolls
              \/ cancelled[i] /\ (polls[i] = 0 \/ ~PollCtxDone(i)))
            => taskErr'[i] = "shutdown"
      ]_vars

----------------------------------------------------------------------------
\* Liveness

\* The goroutines of the program are scheduled fairly: a step that stays
\* possible is taken.  Nothing is assumed of the environment (the launched
\* server: InstanceExit, ServerProgress) nor of the callers (CancelBegin,
\* ParentCancel).
Fairness ==
    /\ \A i \in Servers :
        /\ WF_vars(LaunchServer(i))
        /\ WF_vars(WatcherClose(i)) /\ WF_vars(WatcherCheck(i))
        /\ WF_vars(SendSignal(i))
        /\ WF_vars(InprocReturned(i)) /\ WF_vars(InprocClose(i))
        /\ WF_vars(PollOnce(i)) /\ WF_vars(PollStops(i))
        /\ WF_vars(ProbeReady(i))
    /\ \A c \in Callers : WF_vars(CancelReturn(c))
    /\ WF_vars(GroupWait) /\ WF_vars(TestEnd)
    /\ WF_vars(HookCancelBegin) /\ WF_vars(HookCancelReturn)
    /\ WF_vars(HookOther) /\ WF_vars(CleanupDone)

SpecHandleFair == SpecHandle /\ Fairness

\* C11: under fair scheduling of the program's goroutines a loadCfg that has
\* begun to poll returns, whatever the server does and also while Cancel()
\* calls are made on the handle.
C11_LoadCfgTerminates ==
    \A i \in Servers : (tpc[i] = "poll") ~> (tpc[i] # "poll" \/ crashed)

----------------------------------------------------------------------------
\* Properties of loadCfg and of the accessors of the loaded config

\* The server has written a valid admin.kubeconfig.
Loadable(i) == sstate[i] \in {"written", "healthy"}

\* C12: a step the poll of loadCfg takes when the file is loadable, before
\* the timeout, with the context not cancelled and the instance not marked
\* cancelled, is the successful one: the config is stored in the handle and
\* the poll is over; a loadCfg that is over never polls again and a stored
\* config stays.
C12_LoadSucceedsOnceLoadable ==
    [][ \A i \in Servers :
          /\ (/\ tpc[i] = "poll" /\ <<tpc[i], polls[i]>>' # <<tpc[i], polls[i]>>
              /\ Loadable(i) /\ ~cancelled[i]
              /\ ~GroupCtxDone /\ polls[i] < MaxPolls)
                => cfg'[i] /\ tpc'[i] = "ready" /\ taskErr'[i] = NoErr
          /\ tpc[i] \in {"ready", "done", "failed"} => tpc'[i] # "poll"
          /\ cfg[i] => cfg'[i]
      ]_vars

C12_Witness ==
    \E i \in InFixture :
        /\ cfg[i] /\ tpc[i] = "ready" /\ sstate[i] = "written"
        /\ ~cancelled[i] /\ ~GroupCtxDone

\* C13: the loaded config of a handle is set only by the step in which its
\* loadCfg succeeds, and while it is unset config and RawConfig return an
\* error, BaseConfig and RootShardSystemMasterBaseConfig end the test, and
\* none of them returns a value without an error.
C13_ConfigUnsetUntilLoaded ==
    /\ [](\A i \in Servers :
            ~cfg[i] =>
                /\ config(i).err # "nil" /\ config(i).val = "nil"
                /\ RawConfig(i).err # "nil"
                /\ BaseConfig(i) = "failnow"
                /\ RootShardSystemMasterBaseConfig(i) = "failnow")
    /\ [][ \A i \in Servers :
             (cfg'[i] /\ ~cfg[i]) =>
                 /\ tpc[i] = "poll" /\ tpc'[i] = "ready" /\ taskErr'[i] = NoErr
                 /\ Loadable(i)
         ]_vars

C13_Witness ==
    \E i \in InFixture :
        /\ started[i] /\ tpc[i] = "failed" /\ ~cfg[i]
        /\ RawConfig(i) = [val |-> "zero", err |-> "programmer error"]
        /\ BaseConfig(i) = "failnow"

----------------------------------------------------------------------------
\* Teardown of a fixture NewFixture returned

\* The cleanup of NewFixture calls gatherMetrics for server i in this step.
GatherStep(i) == gathered' = Append(gathered, i)

\* C16 as stated: in a fixture NewFixture returned, gatherMetrics is called
\* for the servers one at a time, in the order of the list, while no
\* instance's lifecycle context is cancelled, and the instance whose metrics
\* are gathered is running.
C16_GatheredWhileRunning ==
    [][ \A i \in Servers :
          GatherStep(i) =>
              /\ i = fixture[Len(gathered) + 1]
              /\ \A j \in InFixture : ~CtxDone(j)
              /\ proc[i] = "running"
      ]_vars

\* C16, amended: gatherMetrics is called for the servers one at a time, in
\* the order of the list, and all calls are over before any instance's
\* lifecycle context is cancelled or any instance is sent SIGTERM; the
\* instance whose metrics are gathered is running unless it has exited by
\* itself, its lifecycle context still live.
C16_GatheredBeforeCancel ==
    /\ [][ \A i \in Servers :
             GatherStep(i) =>
                 /\ i = fixture[Len(gathered) + 1]
                 /\ \A j \in InFixture : ~CtxDone(j) /\ sigterm[j] = 0
                 /\ proc[i] = "running" \/ (proc[i] = "exited" /\ ~ctxAtExit[i])
         ]_vars
    /\ []((returned /\ \E j \in InFixture : CtxDone(j))
             => gathered = fixture)

C16_Witness ==
    /\ pc = "cleanup" /\ gathered = fixture
    /\ \A j \in InFixture : proc[j] = "running" /\ ~CtxDone(j)

----------------------------------------------------------------------------
\* Termination of an external instance

\* C17: the only signal the harness sends is SIGTERM to the process group
\* of an external instance (the negative pid), at most once per instance
\* and only once the lifecycle context is cancelled; an in-process instance
\* is sent none; shutdownComplete of an external instance is closed only in
\* a step taken after the process has exited.
C17_OnlySigtermOnce ==
    /\ [](\A i \in Servers :
            /\ Len(kills[i]) <= 1
            /\ \A k \in 1..Len(kills[i]) :
                   /\ kills[i][k] = Signal(-Pid(i), "SIGTERM")
                   /\ kills[i][k].pid < 0
            /\ kills[i] # <<>> => ~OptRunInProcess(i) /\ CtxDone(i)
            /\ sigterm[i] <= Len(kills[i]))
    /\ [][ \A i \in Servers :
             /\ kills'[i] # kills[i] => CtxDone(i) /\ proc[i] # "none"
             /\ (~OptRunInProcess(i) /\ closes'[i] # closes[i])
                   => proc[i] = "exited" /\ closes[i] = 0
         ]_vars

C17_Witness ==
    \E i \in InFixture :
        /\ ~OptRunInProcess(i)
        /\ kills[i] = <<Signal(-Pid(i), "SIGTERM")>>
        /\ sigterm[i] = 1 /\ proc[i] = "exited" /\ ctxAtExit[i]
        /\ closes[i] = 1

----------------------------------------------------------------------------
\* The in-process runner

\* C18: the context of the backing store is not done while the entry point
\* runs, whatever happens to the lifecycle context: a step that cancels the
\* lifecycle context leaves it as it is, it becomes done only in a step
\* taken after the entry point has ended, and the completion signal of an
\* in-process instance is closed only in a later step, when it is done.
C18_EtcdCtxIndependent ==
    /\ [](\A i \in Servers :
            /\ EtcdCtxDone(i) => OptRunInProcess(i) /\ proc[i] = "exited"
            /\ (OptRunInProcess(i) /\ closes[i] > 0) => EtcdCtxDone(i))
    /\ [][ \A i \in Servers :
             /\ (~EtcdCtxDone(i) /\ EtcdCtxDone(i)') => proc[i] = "exited"
             /\ (~CtxDone(i) /\ CtxDone(i)') => (EtcdCtxDone(i)' = EtcdCtxDone(i))
             /\ (OptRunInProcess(i) /\ closes'[i] # closes[i]) => EtcdCtxDone(i)
         ]_vars

C18_Witness ==
    \E i \in InFixture :
        /\ OptRunInProcess(i) /\ CtxDone(i) /\ ctxAtExit[i]
        /\ EtcdCtxDone(i) /\ closes[i] = 1

\* C19: once the goroutine of an in-process instance whose entry point
\* panicked is over, the completion signal is closed, the panic has been
\* reported as an error of the test, and it has not left the goroutine.
C19_PanicReported ==
    \A i \in Servers :
        (OptRunInProcess(i) /\ Panicked(i) /\ wpc[i] = "done")
            => /\ closes[i] = 1
               /\ <<"inproc", i>> \in terrors
               /\ ~crashed

----------------------------------------------------------------------------
\* A launch that fails

\* Run has a runner to call for server i (RunInProcessFunc may be unset).
RunnerCalled(i) == OptRunInProcess(i) => runInProcessFuncSet

\* The step in which NewFixture's require.NoError fails on the error Run
\* returned for server i.
LaunchFailStep(i) == <<"setup", i>> \in terrors' \ terrors

\* The servers that come after server i in the list given to NewFixture.
After(i) == {fixture[k] : k \in (Pid(i) + 1)..Len(fixture)}

\* C20: when the runner returns an error, the call of Run leaves the
\* lifecycle context it made cancelled, c.cancel unset and not registered as
\* a cleanup, and the error ends NewFixture in that step: the servers that
\* come later in the list are never launched and no Fixture is returned.
C20_LaunchFailureAborts ==
    /\ [][ \A i \in Servers :
             LaunchFailStep(i) =>
                 /\ RunnerCalled(i) => CtxDone(i)'
                 /\ ~started'[i] /\ proc'[i] = "none" /\ tpc'[i] = "none"
                 /\ pc = "launch" /\ pc' = "cleanup" /\ next' = next
         ]_vars
    /\ [](\A i \in Servers :
            <<"setup", i>> \in terrors =>
                /\ ~returned /\ pc \in {"cleanup", "done"}
                /\ \A k \in 1..Len(cleanups) : cleanups[k] # Hook("cancel", i)
                /\ \A j \in After(i) \cup {i} :
                       /\ ~started[j] /\ proc[j] = "none" /\ tpc[j] = "none"
                       /\ closes[j] = 0 /\ kills[j] = <<>>)

C20_Witness ==
    /\ <<"setup", "b">> \in terrors /\ pc = "done"
    /\ started["a"] /\ closes["a"] = 1
    /\ CtxDone("b") /\ ~started["b"] /\ proc["b"] = "none"
    /\ ~returned

----------------------------------------------------------------------------
\* Run without a runner

\* Run of server i returned "RunInProcessFunc is not set".
NilRunnerFailed(i) == <<"setup", i>> \in terrors /\ ~RunnerCalled(i)

\* C21: a Run that finds no in-process runner changes nothing of the handle
\* and registers no cleanup; afterwards the handle has no cancel function,
\* no cancelled lifecycle context, no process and no completion signal, its
\* lock is free, a call of Cancel() on it changes nothing, and Cancelled()
\* stays false.
C21_NilRunnerLeavesHandle ==
    /\ [][ \A i \in Servers :
             /\ (LaunchFailStep(i) /\ ~RunnerCalled(i)) =>
                    /\ UNCHANGED <<handleVars, procVars, cleanups, histVars>>
                    /\ tpc'[i] = "none"
             /\ (NilRunnerFailed(i) /\ cancelCalls' # cancelCalls) =>
                    UNCHANGED <<testVars, groupVars, handleVars, procVars, cpc,
                                ctarget, histVars>>
         ]_vars
    /\ [](\A i \in Servers :
            NilRunnerFailed(i) =>
                /\ ~started[i] /\ ~ownCancel[i] /\ ~cancelled[i] /\ ~cfg[i]
                /\ lock[i] = "free" /\ proc[i] = "none" /\ closes[i] = 0
                /\ \A k \in 1..Len(cleanups) : cleanups[k].srv # i)

C21_Witness ==
    \E i \in InFixture :
        /\ NilRunnerFailed(i) /\ cancelCalls = MaxCancels /\ pc = "done"
        /\ ~cancelled[i] /\ ~ownCancel[i]

----------------------------------------------------------------------------
\* The lock of a handle

\* The readiness task of server i takes a step.
TaskStep(i) ==
    <<tpc[i], polls[i], lastError[i]>>' # <<tpc[i], polls[i], lastError[i]>>

\* C22: c.cfg is written only by a step that can take the handle's lock and
\* leaves it free; c.cancelled is written only by the Cancel() call that
\* holds the lock, as it releases it; while the lock is held the condition
\* function of loadCfg (which reads c.cancelled and writes c.cfg) and the
\* config accessor of the readiness task make no step, the task can only
\* be ended by its context; at most one goroutine holds the lock, and a step
\* that takes or releases one handle's lock leaves every other handle's
\* lock and fields as they are.
C22_FieldsUnderLock ==
    /\ [][ \A i \in Servers :
             /\ cfg'[i] # cfg[i] => lock[i] = "free" /\ lock'[i] = "free"
             /\ cancelled'[i] # cancelled[i] =>
                    /\ lock[i] \in Callers /\ lock'[i] = "free"
                    /\ ctarget[lock[i]] = i
                    /\ cpc[lock[i]] = "waiting" /\ cpc'[lock[i]] = "idle"
             /\ (lock[i] # "free" /\ TaskStep(i)) =>
                    /\ tpc[i] \in {"poll", "ready"} /\ tpc'[i] = "failed"
                    /\ tpc[i] = "poll" => PollCtxDone(i) /\ polls[i] > 0
                    /\ tpc[i] = "ready" => GroupCtxDone
             /\ lock'[i] # lock[i] =>
                    \A j \in Servers \ {i} :
                        /\ lock'[j] = lock[j]
                        /\ cfg'[j] = cfg[j] /\ cancelled'[j] = cancelled[j]
         ]_vars
    /\ [](\A i \in Servers :
            lock[i] # "free" =>
                /\ lock[i] \in Callers /\ started[i]
                /\ cpc[lock[i]] = "waiting" /\ ctarget[lock[i]] = i
                /\ \A c \in Callers \ {lock[i]} :
                       ~(cpc[c] = "waiting" /\ ctarget[c] = i))

C22_Witness ==
    \E i \in InFixture :
        /\ lock[i] \in Callers /\ ~cancelled[i]
        /\ tpc[i] = "poll" /\ polls[i] = 1 /\ ~PollCtxDone(i)
        /\ LoadKubeConfig(i) = "ok"

----------------------------------------------------------------------------
\* Monitoring of an instance's endpoints

\* C23: MonitorEndpoints has been started for an instance whose readiness
\* task succeeded exactly if the instance was launched by runExternal, and
\* for no other instance.
C23_MonitoredIffExternal ==
    \A i \in Servers :
        /\ monitored[i] => tpc[i] = "done" /\ ~OptRunInProcess(i)
        /\ tpc[i] = "done" => (monitored[i] <=> ~OptRunInProcess(i))

----------------------------------------------------------------------------
\* The log of an external instance

\* C26: kcp.log holds exactly the bytes the process has written, in their
\* order; it changes only by the bytes a write of the process appends;
\* filterKcpLogs is called only by the exit watcher when it reports a
\* failure of the process, on the bytes of the in-memory buffer, and that
\* step leaves the file as it is.
C26_LogFileUnfiltered ==
    /\ [](\A i \in Servers : fileLog[i] = emitted[i] /\ memLog[i] = emitted[i])
    /\ [][ \A i \in Servers :
             /\ fileLog'[i] # fileLog[i] =>
                    \E chunk \in Chunks :
                        /\ fileLog'[i] = fileLog[i] \o chunk
                        /\ emitted'[i] = emitted[i] \o chunk
             /\ reported'[i] # reported[i] =>
                    /\ wpc[i] = "check" /\ ~OptRunInProcess(i)
                    /\ exitStatus[i] # 0 /\ ~CtxDone(i)
                    /\ <<"exit", i>> \in terrors'
                    /\ reported'[i] = <<filterKcpLogs(memLog[i])>>
                    /\ UNCHANGED outVars
         ]_vars

C26_Witness ==
    \E i \in InFixture :
        /\ fileLog[i] = <<"g", "nl">> \o Noise \o <<"nl">>
        /\ reported[i] = <<<<"g", "nl">>>>
        /\ LogFileOpen(i) = FALSE /\ pc = "done"

----------------------------------------------------------------------------
\* Artifact producers

\* The producers registered, as a set.
Registered == {registered[k] : k \in 1..Len(registered)}

\* The cleanup of producer p runs in this step.
ArtifactStep(p) == p \in invoked' \ invoked

\* C27: when the test's cleanups are over every registered producer has
\* been called, once; a producer is called by its own cleanup only; a
\* collection that fails is reported for its producer and leaves every
\* other cleanup, the other producers' too, to run.
C27_AllProducersRun ==
    /\ [](pc = "done" => invoked = Registered)
    /\ [](\A p \in Producers :
            /\ p \in invoked => p \in Registered
            /\ p \in invoked => \A k \in 1..Len(cleanups) : cleanups[k] # Hook("artifact", p)
            /\ <<"artifact", p>> \in terrors => p \in invoked)
    /\ [][ \A p \in Producers :
             ArtifactStep(p) =>
                 /\ pc = "cleanup" /\ pc' = "cleanup"
                 /\ TopHook = Hook("artifact", p)
                 /\ cleanups' = Pop(cleanups)
                 /\ terrors' \subseteq terrors \cup {<<"artifact", p>>}
         ]_vars

C27_Witness ==
    /\ pc = "done" /\ registered = <<"p1", "p2">> /\ invoked = Producers
    /\ <<"artifact", "p2">> \in terrors /\ <<"artifact", "p1">> \notin terrors

\* C28 as stated: a producer registered for a started server is called
\* while that server's lifecycle context is not cancelled and the server is
\* running.
C28_ProducerSeesRunningServer ==
    [][ \A p \in Producers :
          ArtifactStep(p) =>
              /\ ~CtxDone(artSrv[p])
              /\ proc[artSrv[p]] = "running"
      ]_vars

\* C28, amended: a producer registered for a started server is called
\* before the teardown hook of that server has run: its lifecycle context is
\* not cancelled, no signal has been sent and the completion signal has not
\* been awaited; the server is running unless it has exited by itself, its
\* lifecycle context live.
C28_ProducerBeforeTeardown ==
    [][ \A p \in Producers :
          ArtifactStep(p) =>
              LET i == artSrv[p]
              IN /\ started[i] /\ ~CtxDone(i)
                 /\ kills[i] = <<>> /\ sigterm[i] = 0
                 /\ \E k \in 1..Len(cleanups) : cleanups[k] = Hook("cancel", i)
                 /\ proc[i] = "running" \/ (proc[i] = "exited" /\ ~ctxAtExit[i])
      ]_vars

C28_Witness ==
    \E p \in Producers :
        /\ p \in invoked /\ pc = "cleanup"
        /\ artSrv[p] \in InFixture
        /\ proc[artSrv[p]] = "running" /\ ~CtxDone(artSrv[p])

\* A readiness task of NewFixture has returned an error.
ReadinessFailed == \E i \in Servers : tpc[i] = "failed"

\* C29: once a readiness task has failed, NewFixture does not return and the
\* test body does not run; every launched instance keeps its teardown hook
\* until the hook has awaited the completion signal; the lifecycle context
\* of a launched instance is cancelled only while the cleanups run; and when
\* the test has ended every launched instance has its lifecycle context
\* cancelled, its completion signal closed and awaited, and is not running.
C29_LaunchedStoppedAfterReadinessFailure ==
    /\ [](ReadinessFailed => ~returned /\ pc # "body")
    /\ [](\A j \in Servers :
            (ReadinessFailed /\ started[j]) =>
                \/ cancelCompleted[j]
                \/ \E k \in 1..Len(cleanups) : cleanups[k] = Hook("cancel", j))
    /\ [][ ReadinessFailed =>
             \A j \in Servers :
                /\ (started[j] /\ ownCancel'[j] # ownCancel[j]) => pc = "cleanup"
                /\ cancelCompleted'[j] # cancelCompleted[j] =>
                      pc = "cleanup" /\ ShutdownCompleteClosed(j)
                /\ (pc' = "done" /\ started[j]) =>
                      Stopped(j) /\ cancelCompleted[j]
       ]_vars

C29_Witness ==
    \E i, j \in InFixture :
        /\ i # j /\ pc = "done"
        /\ firstErr # <<>> /\ firstErr[1] = i /\ tpc[i] = "failed"
        /\ started[i] /\ started[j] /\ tpc[j] = "done"
        /\ Stopped(i) /\ Stopped(j)

\* The ports a caller of unusedPorts has recorded so far.
Recorded(t) == {ports[t][k] : k \in 1..Len(ports[t])}

\* C30: while a call of unusedPorts runs, the listener of every port it has
\* recorded is open; the listeners are closed only when the call returns;
\* and the ports one call records, the three it returns among them, are
\* pairwise distinct.
C30_ListenersHeldSoPortsDistinct ==
    /\ [](\A t \in Allocators :
            /\ apc[t] = "run" => open[t] = Recorded(t)
            /\ Cardinality(Recorded(t)) = Len(ports[t])
            /\ apc[t] = "done" => Cardinality(Recorded(t)) = 3)
    /\ [][ \A t \in Allocators :
             ~(open[t] \subseteq open'[t]) => apc[t] = "run" /\ apc'[t] # "run"
       ]_vars

C30_Witness ==
    \E t, u \in Allocators :
        /\ t # u
        /\ apc[t] = "done" /\ Cardinality(Recorded(t)) = 3 /\ open[t] = {}
        /\ apc[u] = "run" /\ Len(ports[u]) = 2

\* C31: a failed bind ends the call of unusedPorts: the call returns the
\* error and no port, and binds nothing afterwards; and after every return,
\* with the three ports or with the error, no listener the call had bound
\* is open.
C31_BindErrorReturnsAndReleases ==
    /\ [](\A t \in Allocators :
            /\ apc[t] # "run" => open[t] = {}
            /\ apc[t] = "failed" => ports[t] = <<>> /\ bound[t] < 3
            /\ apc[t] = "done" => bound[t] = 3)
    /\ [][ \A t \in Allocators :
             /\ apc[t] = "failed" =>
                  /\ apc'[t] = "failed"
                  /\ bound'[t] = bound[t] /\ ports'[t] = ports[t]
             /\ (apc[t] # "failed" /\ apc'[t] = "failed") =>
                  apc[t] = "run" /\ bound'[t] = bound[t] /\ open'[t] = {}
       ]_vars

C31_Witness ==
    \E t \in Allocators :
        /\ apc[t] = "failed" /\ bound[t] = 2
        /\ ports[t] = <<>> /\ open[t] = {}

\* C32: the completion signal of an instance is closed at most once, only
\* after the process or the entry point has exited, and by the first thing
\* the runner's goroutine does after the exit, whatever the exit was: the
\* goroutine can always go on to the close, and has closed the signal once
\* when it is finished.
C32_CompletionClosedOnceAfterExit ==
    /\ [](\A i \in Servers :
            /\ closes[i] <= 1
            /\ closes[i] > 0 => proc[i] = "exited"
            /\ wpc[i] \in {"check", "done"} => closes[i] = 1
            /\ (proc[i] = "exited" /\ closes[i] = 0 /\ ~crashed) =>
                  ENABLED (WatcherClose(i) \/ InprocReturned(i) \/ InprocClose(i)))
    /\ [][ \A i \in Servers :
             closes'[i] # closes[i] =>
                /\ closes[i] = 0 /\ closes'[i] = 1
                /\ proc[i] = "exited" /\ started[i]
                /\ terrors' = terrors
       ]_vars

C32_Witness ==
    \E i, j \in InFixture :
        /\ ~OptRunInProcess(i) /\ exitStatus[i] = 1 /\ wpc[i] = "done" /\ closes[i] = 1
        /\ OptRunInProcess(j) /\ exitStatus[j] = 1 /\ wpc[j] = "done" /\ closes[j] = 1

\* C33: a handle whose cancelled flag is set was started, has had the cancel
\* function of its lifecycle context called and has its completion signal
\* closed; the flag is never cleared; and a call of Cancel on a handle that
\* was never started changes nothing of the handle: flag, lifecycle context
\* and lock stay as they are and no caller waits.
C33_CancelledImpliesStopped ==
    /\ [](\A i \in Servers :
            cancelled[i] =>
                started[i] /\ ownCancel[i] /\ CtxDone(i) /\ ShutdownCompleteClosed(i))
    /\ [][ /\ \A i \in Servers : cancelled[i] => cancelled'[i]
           /\ (cancelCalls' # cancelCalls /\ \A i \in Servers : ~started[i]) =>
                UNCHANGED <<cancelled, ownCancel, lock, cpc>>
           /\ \A i \in Servers :
                (lock'[i] \in Callers /\ lock[i] \notin Callers) => started[i]
       ]_vars

C33_Witness ==
    \E i \in InFixture :
        /\ cancelled[i] /\ started[i] /\ ownCancel[i] /\ closes[i] = 1
        /\ cancelCalls = MaxCancels
        /\ \A c \in Callers : cpc[c] = "idle"

----------------------------------------------------------------------------
\* Liveness when the instance exits once its lifecycle context is cancelled

\* The environment's part: an instance whose lifecycle context is cancelled
\* exits or returns.
ExitsWhenCancelled ==
    \A i \in Servers :
        WF_vars(CtxDone(i) /\ \E st \in {0, 1} : InstanceExit(i, st))

\* The goroutines whose steps the calls wait for are scheduled fairly: the
\* runner's goroutines, the poll of loadCfg, and the return from the wait
\* for the completion signal in Cancel and in the teardown hook.
FairGoroutines ==
    /\ \A i \in Servers :
        /\ WF_vars(WatcherClose(i)) /\ WF_vars(WatcherCheck(i))
        /\ WF_vars(SendSignal(i))
        /\ WF_vars(InprocReturned(i)) /\ WF_vars(InprocClose(i))
        /\ WF_vars(PollOnce(i)) /\ WF_vars(PollStops(i))
    /\ \A c \in Callers : WF_vars(CancelReturn(c))
    /\ WF_vars(HookCancelReturn)

SpecHandleExits == SpecHandle /\ FairGoroutines /\ ExitsWhenCancelled

\* A call on handle i has not returned: a Cancel or the teardown hook waits
\* for the completion signal, loadCfg polls, or a runner goroutine of the
\* cancelled instance has not finished.
Pending(i) ==
    \/ \E c \in Callers : cpc[c] = "waiting" /\ ctarget[c] = i
    \/ hookWaiting /\ cleanups # <<>> /\ TopHook.srv = i
    \/ tpc[i] = "poll"
    \/ /\ started[i] /\ CtxDone(i)
       /\ ~(wpc[i] = "done" /\ spc[i] \in {"none", "done"})

----------------------------------------------------------------------------
\* Teardown of a fixture of externally spawned instances

\* NewFixture is called with Configs that all ask for an external process.
InitExternal ==
    /\ fixture = Order
    /\ earlyCancel = FALSE
    /\ cfgRunInProcess = [i \in Servers |-> FALSE]
    /\ envInProcess = FALSE
    /\ runInProcessFuncSet = FALSE
    /\ parent = [i \in Servers |-> "none"]
    /\ InitState
    /\ InitMade
    /\ InitUncalled

NextExternal ==
    \/ \E i \in Servers : LaunchServer(i)
    \/ \E i \in Servers : ServerProgress(i)
    \/ \E i \in Servers, st \in {0, 1} : InstanceExit(i, st)
    \/ \E i \in Servers : WatcherClose(i)
    \/ \E i \in Servers : WatcherCheck(i)
    \/ \E i \in Servers : SendSignal(i)
    \/ \E i \in Servers : PollOnce(i)
    \/ \E i \in Servers : PollStops(i)
    \/ \E i \in Servers : ProbeReady(i)
    \/ \E i \in Servers : ProbeStops(i)
    \/ GroupWait
    \/ TestEnd
    \/ HookCancelBegin
    \/ HookCancelReturn
    \/ HookOther
    \/ GatherMetrics
    \/ CleanupDone

\* The cleanups and the goroutines of runExternal are scheduled fairly.
FairTeardown ==
    /\ \A i \in Servers : WF_vars(WatcherClose(i)) /\ WF_vars(SendSignal(i))
    /\ WF_vars(HookCancelBegin) /\ WF_vars(HookCancelReturn)
    /\ WF_vars(HookOther) /\ WF_vars(GatherMetrics) /\ WF_vars(CleanupDone)

\* The environment's part: a process that has been sent SIGTERM exits.
ExitsAfterSigterm ==
    \A i \in Servers :
        WF_vars(sigterm[i] > 0 /\ \E st \in {0, 1} : InstanceExit(i, st))

SpecTeardown ==
    InitExternal /\ [][NextExternal]_vars /\ FairTeardown /\ ExitsAfterSigterm

\* The position of hook h on the stack of cleanups, 0 if it is not there.
HookIndex(h) ==
    IF \E k \in 1..Len(cleanups) : cleanups[k] = h
    THEN CHOOSE k \in 1..Len(cleanups) : cleanups[k] = h
    ELSE 0

----------------------------------------------------------------------------
\* The signal for a process that has already exited

\* C36: when the lifecycle context of an external instance is cancelled
\* after its process has exited, the step of the signal goroutine reports
\* nothing on t.
C36_NoErrorForGoneProcess ==
    [][ \A i \in Servers :
          (/\ ~OptRunInProcess(i)
           /\ proc[i] = "exited" /\ ~ctxAtExit[i]
           /\ kills'[i] # kills[i]) =>
              terrors' = terrors
      ]_vars

====
